---- MODULE Spec2Model ----
(***************************************************************************)
(* Configuration resolution of ludwig: ModelConfig (schema/config_object), *)
(* the dict-based hyperopt merge (utils/defaults) and the config checks    *)
(* (config_validation/checks).                                             *)
(*                                                                         *)
(* A config dict is a function from keys to values; a schema object is the *)
(* function from its attribute names (its __dict__) to their values.  Leaf *)
(* values are strings (None is the string "None"), `active` is a boolean,  *)
(* feature lists and feature containers are sequences.                     *)
(***************************************************************************)
EXTENDS Integers, Sequences, FiniteSets, TLC

VARIABLES
    cfg,    \* the config dict handed to the last construction
    obj,    \* the ModelConfig object, NoObj before/without a successful construction
    err,    \* exception raised by the last operation, "none" when it returned
    op,     \* the last operation performed
    nops,   \* number of mutating calls made on obj since its construction
    upd,    \* TRUE once update_with_dict has been called on obj
    mrg,    \* outcome of the last call of a function of utils.defaults or of
            \* config_validation.checks on a config dict
    pre,    \* obj as it was before the last mutating call
    delta   \* the dict handed to the last update_with_dict call

vars == <<cfg, obj, err, op, nops, upd, mrg, pre, delta>>

----------------------------------------------------------------------------
(* Values *)

None == "None"

\* sys.maxsize on a 64-bit build
MAXSIZE == "9223372036854775807"

EmptyDict == [k \in {} |-> None]

NoObj == [none |-> TRUE]

\* dict.get(key, default)
Get(d, k, default) == IF k \in DOMAIN d THEN d[k] ELSE default

\* a copy of d with d[k] = v
Put(d, k, v) == [x \in DOMAIN d \cup {k} |-> IF x = k THEN v ELSE d[x]]

----------------------------------------------------------------------------
(* Registries and schema classes *)

INPUT_TYPES == {"binary", "category", "number", "text"}

\* section keys that _set_attributes treats as type-discriminated
TYPED_SECTIONS == {"encoder", "decoder", "loss", "optimizer", "split"}

\* keys of the config universe whose value is a dict (isinstance(val, dict))
DICT_KEYS == {"preprocessing"} \cup INPUT_TYPES

\* encoder schema registered for (feature type, encoder type), default-initialized
get_encoder_cls(feature_type, section_type) ==
    CASE section_type = "parallel_cnn" ->
            [type |-> "parallel_cnn", num_filters |-> "256", reduce_output |-> "sum"]
      [] section_type = "rnn" ->
            [type |-> "rnn", cell_type |-> "rnn", reduce_output |-> "last"]
      [] section_type = "embed" ->
            [type |-> "embed", representation |-> "dense", reduce_output |-> "sum"]
      [] OTHER -> [type |-> section_type]

get_decoder_cls(feature_type, section_type) ==
    CASE section_type = "generator" ->
            [type |-> "generator", cell_type |-> "gru", input_size |-> "256"]
      [] section_type = "tagger" ->
            [type |-> "tagger", use_attention |-> "False", input_size |-> "256"]
      [] OTHER -> [type |-> section_type]

get_loss_cls(feature_type, section_type) == [type |-> section_type, weight |-> "1.0"]

get_optimizer_cls(section_type) ==
    CASE section_type = "adam" -> [type |-> "adam", beta1 |-> "0.9"]
      [] section_type = "adadelta" -> [type |-> "adadelta", rho |-> "0.9"]
      [] OTHER -> [type |-> section_type]

get_split_cls(section_type) ==
    CASE section_type = "random" -> [type |-> "random", probabilities |-> "0.7,0.1,0.2"]
      [] section_type = "fixed" -> [type |-> "fixed", column |-> "split"]
      [] OTHER -> [type |-> section_type]

\* default encoder type of an input feature type
DefaultEncoderType(ft) ==
    CASE ft = "text" -> "parallel_cnn"
      [] ft = "category" -> "dense"
      [] OTHER -> "passthrough"

DefaultDecoderType(ft) ==
    CASE ft = "text" -> "generator"
      [] ft = "category" -> "classifier"
      [] OTHER -> "regressor"

DefaultLossType(ft) ==
    CASE ft = "text" -> "sequence_softmax_cross_entropy"
      [] ft = "category" -> "softmax_cross_entropy"
      [] OTHER -> "mean_squared_error"

\* preprocessing schema of an input feature type
InputPreprocessingConfig(ft) ==
    [missing_value_strategy |-> IF ft = "binary" THEN "fill_with_false" ELSE "fill_with_const",
     lowercase |-> "False"]

\* preprocessing schema of an output feature type ("category_output", ...)
OutputPreprocessingConfig(ft) ==
    [missing_value_strategy |-> "drop_row", lowercase |-> "False"]

PassthroughEncoderConfig == [type |-> "passthrough"]

BinaryPassthroughEncoderConfig == [type |-> "passthrough"]

ConcatCombinerConfig == [type |-> "concat", output_size |-> "256", num_fc_layers |-> "0"]

ECDTrainerConfig ==
    [type |-> "trainer", epochs |-> "100", early_stop |-> "5",
     optimizer |-> get_optimizer_cls("adam")]

GBMTrainerConfig ==
    [type |-> "lightgbm_trainer", early_stop |-> "5", num_boost_round |-> "100"]

PreprocessingConfig ==
    [split |-> get_split_cls("random"), undersample_majority |-> None,
     oversample_minority |-> None, sample_ratio |-> "1.0"]

\* one defaults section per feature type
DefaultsConfig ==
    [ft \in INPUT_TYPES |->
        [preprocessing |-> InputPreprocessingConfig(ft),
         encoder |-> get_encoder_cls(ft, DefaultEncoderType(ft)),
         decoder |-> get_decoder_cls(ft, DefaultDecoderType(ft)),
         loss |-> get_loss_cls(ft, DefaultLossType(ft))]]

\* get_input_feature_cls(type)()
get_input_feature_cls(ft) ==
    [active |-> TRUE, name |-> None, type |-> ft, column |-> None, proc_column |-> None,
     tied |-> None,
     preprocessing |-> InputPreprocessingConfig(ft),
     encoder |-> get_encoder_cls(ft, DefaultEncoderType(ft))]

\* get_output_feature_cls(type)()
get_output_feature_cls(ft) ==
    [active |-> TRUE, name |-> None, type |-> ft, column |-> None, proc_column |-> None,
     reduce_input |-> "sum",
     preprocessing |-> OutputPreprocessingConfig(ft),
     decoder |-> get_decoder_cls(ft, DefaultDecoderType(ft)),
     loss |-> get_loss_cls(ft, DefaultLossType(ft))]

----------------------------------------------------------------------------
(* ModelConfig helpers *)

\* position of the attribute `name` in a feature container, 0 when absent
IndexOf(container, name) ==
    IF \E i \in 1..Len(container) : container[i].name = name
    THEN CHOOSE i \in 1..Len(container) : container[i].name = name
    ELSE 0

\* setattr(container, name, feature): an existing attribute keeps its place
SetFeature(container, name, feature) ==
    IF IndexOf(container, name) = 0
    THEN Append(container, feature)
    ELSE [container EXCEPT ![IndexOf(container, name)] = feature]

\* hash of a preprocessing dict, one token per key in sorted key order
hash_dict(d) ==
    (IF "lowercase" \in DOMAIN d THEN "lowercase=" \o d["lowercase"] \o ";" ELSE "")
    \o (IF "missing_value_strategy" \in DOMAIN d
        THEN "missing_value_strategy=" \o d["missing_value_strategy"] \o ";" ELSE "")

compute_feature_hash(feature) ==
    feature["name"] \o "_" \o hash_dict(Get(feature, "preprocessing", EmptyDict))

_set_feature_column(features) ==
    [i \in 1..Len(features) |->
        IF "column" \in DOMAIN features[i] THEN features[i]
        ELSE Put(features[i], "column", features[i]["name"])]

_set_proc_column(features) ==
    [i \in 1..Len(features) |->
        IF "proc_column" \in DOMAIN features[i] THEN features[i]
        ELSE Put(features[i], "proc_column", compute_feature_hash(features[i]))]

\* upgrade_to_latest_version rewrites deprecated keys only; the configs here
\* are written in the current format and come back with the same content
_upgrade_config(config_dict) == config_dict

_get_config_cls(section, section_type, feature_type) ==
    CASE section = "encoder" -> get_encoder_cls(feature_type, section_type)
      [] section = "decoder" -> get_decoder_cls(feature_type, section_type)
      [] section = "loss" -> get_loss_cls(feature_type, section_type)
      [] section = "optimizer" -> get_optimizer_cls(section_type)
      [] section = "split" -> get_split_cls(section_type)

\* In every dict of the config universe a feature-type key occurs only in the
\* `defaults` section, where each key is a feature type, so the feature type
\* persisted by the loop is the key's own and the order of the keys is immaterial.
RECURSIVE _set_attributes(_, _, _)

\* _set_attributes without the replacement of a section whose type changed:
\* the keys are set on the object already in the slot
_set_attributes_in_place(config_obj_lvl, config_dict_lvl, feature_type) ==
    [key \in DOMAIN config_obj_lvl \cup DOMAIN config_dict_lvl |->
        IF key \notin DOMAIN config_dict_lvl THEN config_obj_lvl[key]
        ELSE LET val == config_dict_lvl[key]
                 ft == IF key \in INPUT_TYPES THEN key ELSE feature_type
             IN  IF key \in TYPED_SECTIONS \cup DICT_KEYS
                 THEN _set_attributes(config_obj_lvl[key], val, ft)
                 ELSE val]

_set_attributes(config_obj_lvl, config_dict_lvl, feature_type) ==
    [key \in DOMAIN config_obj_lvl \cup DOMAIN config_dict_lvl |->
        IF key \notin DOMAIN config_dict_lvl THEN config_obj_lvl[key]
        ELSE LET val == config_dict_lvl[key]
                 ft == IF key \in INPUT_TYPES THEN key ELSE feature_type
             IN  IF key \in TYPED_SECTIONS
                 THEN LET section == config_obj_lvl[key]
                          current ==
                              IF "type" \in DOMAIN val /\ section["type"] # val["type"]
                              THEN _get_config_cls(key, val["type"], ft)
                              ELSE section
                      IN  _set_attributes(current, val, ft)
                 ELSE IF key \in DICT_KEYS
                 THEN _set_attributes(config_obj_lvl[key], val, ft)
                 ELSE val]

\* _set_global_defaults that leaves the feature as its schema initialized it
_skip_global_defaults(defaults, feature, feat_type, feature_section) == feature

\* _set_global_defaults without the input/output switch: every section the
\* global defaults hold is copied onto the feature
_set_global_defaults_any_section(defaults, feature, feat_type, feature_section) ==
    [section \in DOMAIN feature |->
        IF section \in {"encoder", "preprocessing", "decoder", "loss"}
        THEN defaults[feat_type][section] ELSE feature[section]]

_set_global_defaults(defaults, feature, feat_type, feature_section) ==
    LET type_defaults == defaults[feat_type]
    IN  [section \in DOMAIN feature |->
            IF feature_section = "input_features"
            THEN IF section \in {"encoder", "preprocessing"}
                 THEN type_defaults[section] ELSE feature[section]
            ELSE IF section \in {"decoder", "loss"}
                 THEN type_defaults[section] ELSE feature[section]]

\* the loop body without the tagger rule: reduce_input stays as it was set
ParseFeatureKeepsReduceInput(defaults, container, feature, feature_section, initialize) ==
    LET feature_config_cls ==
            IF feature_section = "input_features"
            THEN get_input_feature_cls(feature["type"])
            ELSE get_output_feature_cls(feature["type"])
        start ==
            IF initialize
            THEN _set_global_defaults(defaults, feature_config_cls, feature["type"],
                                      feature_section)
            ELSE container[IndexOf(container, feature["name"])]
    IN  SetFeature(container, feature["name"],
                   _set_attributes(start, feature, feature["type"]))

\* one iteration of the loop of _parse_features, on the container of the section
ParseFeature(defaults, container, feature, feature_section, initialize) ==
    LET feature_config_cls ==
            IF feature_section = "input_features"
            THEN get_input_feature_cls(feature["type"])
            ELSE get_output_feature_cls(feature["type"])
        start ==
            IF initialize
            THEN _set_global_defaults(defaults, feature_config_cls, feature["type"],
                                      feature_section)
            ELSE container[IndexOf(container, feature["name"])]
        set == _set_attributes(start, feature, feature["type"])
        done ==
            IF feature_section = "output_features" /\ set["decoder"]["type"] = "tagger"
            THEN [set EXCEPT !["reduce_input"] = None]
            ELSE set
    IN  SetFeature(container, feature["name"], done)

RECURSIVE ParseFrom(_, _, _, _, _, _)
ParseFrom(defaults, container, features, feature_section, initialize, i) ==
    IF i > Len(features) THEN container
    ELSE ParseFrom(defaults,
                   ParseFeature(defaults, container, features[i], feature_section, initialize),
                   features, feature_section, initialize, i + 1)

\* _parse_features that initializes each feature anew whatever `initialize` says
_parse_features_initialized(defaults, container, features, feature_section, initialize) ==
    ParseFrom(defaults, container, features, feature_section, TRUE, 1)

\* _parse_features whose features share one section object per feature type:
\* what is set on the last feature parsed shows on every feature of its type
_parse_features_shared(defaults, container, features, feature_section, initialize) ==
    LET parsed == ParseFrom(defaults, container, features, feature_section, initialize, 1)
    IN  IF features = <<>> THEN parsed
        ELSE LET w == parsed[IndexOf(parsed, features[Len(features)]["name"])]
             IN  [i \in 1..Len(parsed) |->
                    IF parsed[i]["type"] # w["type"] THEN parsed[i]
                    ELSE [section \in DOMAIN parsed[i] |->
                            IF \/ /\ feature_section = "input_features"
                                  /\ section \in {"encoder", "preprocessing"}
                               \/ /\ feature_section = "output_features"
                                  /\ section \in {"decoder", "loss"}
                            THEN w[section] ELSE parsed[i][section]]]

_parse_features(defaults, container, features, feature_section, initialize) ==
    ParseFrom(defaults, container, features, feature_section, initialize, 1)

\* the list of the container without the filter on `active`
ActiveListUnfiltered(container) == container

\* list(convert_submodules(container.__dict__).values()) filtered on `active`
ActiveList(container) == SelectSeq(container, LAMBDA feat : feat["active"])

to_dict(self) ==
    [model_type |-> self.model_type,
     input_features |-> ActiveList(self.input_features),
     output_features |-> ActiveList(self.output_features),
     combiner |-> self.combiner,
     trainer |-> self.trainer,
     preprocessing |-> self.preprocessing,
     hyperopt |-> self.hyperopt,
     defaults |-> self.defaults]

----------------------------------------------------------------------------
(* Hyperopt reconciliation *)

\* `not x` for a dict-or-None value
Falsy(d) == DOMAIN d = {}

\* the comparison that never finds trainer epochs and scheduler max_t at odds
EpochsNeverDiffer(epochs, max_t) == FALSE

\* `epochs is not None and epochs != max_t`
EpochsDiffer(epochs, max_t) == epochs # None /\ epochs # max_t

\* _set_hyperopt_defaults returning before it reads the scheduler
_set_hyperopt_defaults_return(trainer, hyperopt) ==
    [err |-> "none", trainer |-> trainer, hyperopt |-> hyperopt]

\* ModelConfig._set_hyperopt_defaults on (self.trainer, self.hyperopt)
_set_hyperopt_defaults(trainer, hyperopt) ==
    LET executor == Get(hyperopt, "executor", EmptyDict)
        scheduler == Get(executor, "scheduler", EmptyDict)
    IN  IF Falsy(hyperopt) \/ Falsy(scheduler)
        THEN [err |-> "none", trainer |-> trainer, hyperopt |-> hyperopt]
        ELSE
        LET executor1 == IF "type" \in DOMAIN executor THEN executor
                         ELSE Put(executor, "type", "ray")
            trainer1 == Put(trainer, "early_stop", "-1")
            max_t == Get(scheduler, "max_t", None)
            time_attr == Get(scheduler, "time_attr", None)
            epochs == Get(trainer1, "epochs", None)
            hyper(sch) == Put(hyperopt, "executor", Put(executor1, "scheduler", sch))
        IN  IF max_t # None
            THEN IF time_attr = "time_total_s"
                 THEN [err |-> "none",
                       trainer |-> IF epochs = None THEN Put(trainer1, "epochs", MAXSIZE)
                                   ELSE trainer1,
                       hyperopt |-> hyper(scheduler)]
                 ELSE IF EpochsDiffer(epochs, max_t)
                 THEN [err |-> "ValueError", trainer |-> trainer1, hyperopt |-> hyper(scheduler)]
                 ELSE [err |-> "none", trainer |-> Put(trainer1, "epochs", max_t),
                       hyperopt |-> hyper(scheduler)]
            ELSE IF epochs # None
            THEN [err |-> "none", trainer |-> trainer1,
                  hyperopt |-> hyper(Put(scheduler, "max_t", epochs))]
            ELSE [err |-> "none", trainer |-> trainer1, hyperopt |-> hyper(scheduler)]

\* the sanity checks asserting nothing about the lengths of the feature lists
_perform_sanity_checks_keys_only(config) ==
    \/ "input_features" \notin DOMAIN config
    \/ "output_features" \notin DOMAIN config

\* utils.defaults._perform_sanity_checks on a config dict whose sections have
\* the expected Python types: TRUE when an assertion fails
_perform_sanity_checks(config) ==
    \/ "input_features" \notin DOMAIN config
    \/ "output_features" \notin DOMAIN config
    \/ ~ (Len(config["input_features"]) > 0)
    \/ ~ (Len(config["output_features"]) > 0)

\* utils.defaults._merge_hyperopt_with_trainer on a config dict
_merge_hyperopt_with_trainer(config) ==
    LET hyperopt == Get(config, "hyperopt", EmptyDict)
        executor == Get(hyperopt, "executor", EmptyDict)
        scheduler == Get(executor, "scheduler", EmptyDict)
    IN  IF "hyperopt" \notin DOMAIN config \/ Falsy(scheduler)
        THEN [err |-> "none", config |-> config]
        ELSE
        LET trainer == Get(config, "trainer", EmptyDict)
            early_stop == Get(trainer, "early_stop", None)
            trainer1 == Put(trainer, "early_stop", "-1")
            max_t == Get(scheduler, "max_t", None)
            time_attr == Get(scheduler, "time_attr", None)
            epochs == Get(trainer, "epochs", None)
            out(tr, sch) ==
                Put(Put(config, "trainer", tr), "hyperopt",
                    Put(hyperopt, "executor", Put(executor, "scheduler", sch)))
        IN  IF early_stop # None /\ early_stop # "-1"
            THEN [err |-> "ValueError", config |-> Put(config, "trainer", trainer)]
            ELSE IF max_t # None
            THEN IF time_attr = "time_total_s"
                 THEN [err |-> "none",
                       config |-> out(IF epochs = None THEN Put(trainer1, "epochs", MAXSIZE)
                                      ELSE trainer1, scheduler)]
                 ELSE IF EpochsDiffer(epochs, max_t)
                 THEN [err |-> "ValueError", config |-> out(trainer1, scheduler)]
                 ELSE [err |-> "none",
                       config |-> out(Put(trainer1, "epochs", max_t), scheduler)]
            ELSE IF epochs # None
            THEN [err |-> "none", config |-> out(trainer1, Put(scheduler, "max_t", epochs))]
            ELSE [err |-> "none", config |-> out(trainer1, scheduler)]

----------------------------------------------------------------------------
(* utils.defaults.merge_with_defaults on a config dict *)

\* a str held where a section dict may also be held
Str(s) == [str |-> s]

\* merge_dict(dct, merge_dct): the keys of merge_dct laid over dct, nested dicts
\* merged key by key
RECURSIVE merge_dict(_, _)
merge_dict(dct, merge_dct) ==
    [k \in DOMAIN dct \cup DOMAIN merge_dct |->
        IF k \notin DOMAIN merge_dct THEN dct[k]
        ELSE IF k \in DOMAIN dct /\ k \in DICT_KEYS \cup {"split"}
        THEN merge_dict(dct[k], merge_dct[k])
        ELSE merge_dct[k]]

base_preprocessing_parameters ==
    [split |-> EmptyDict, undersample_majority |-> None, oversample_minority |-> None,
     sample_ratio |-> "1.0"]

\* a copy of d without the keys of S
Pop(d, S) == [k \in DOMAIN d \ S |-> d[k]]

remove_ecd_params(feature) ==
    Pop(feature, {"tied", "fc_layers", "num_layers", "output_size", "use_bias",
                  "weights_initializer", "bias_initializer", "norm", "norm_params",
                  "activation", "dropout", "embedding_size", "embeddings_on_cpu",
                  "pretrained_embeddings", "embeddings_trainable", "embedding_initializer",
                  "reduce_input", "dependencies", "reduce_dependencies", "loss",
                  "num_fc_layers", "threshold", "clip", "top_k"})

_get_defaults_section_for_feature_type(feature_type, config_defaults, config_defaults_feature_types, config_defaults_section) ==
    IF /\ feature_type \in config_defaults_feature_types
       /\ config_defaults_section \in DOMAIN config_defaults[feature_type]
    THEN config_defaults[feature_type][config_defaults_section]
    ELSE EmptyDict

\* set_default_value(dictionary, key, value)
set_default_value(dictionary, key, value) ==
    IF key \in DOMAIN dictionary THEN dictionary ELSE Put(dictionary, key, value)

\* input_type_registry[type].populate_defaults(input_feature)
populate_input_defaults(input_feature) ==
    set_default_value(
        set_default_value(
            set_default_value(input_feature, "tied", None),
            "preprocessing", EmptyDict),
        "encoder", [type |-> DefaultEncoderType(input_feature["type"])])

\* output_type_registry[type].populate_defaults(output_feature)
populate_output_defaults(output_feature) ==
    set_default_value(
        set_default_value(
            set_default_value(output_feature, "reduce_input", "sum"),
            "loss", get_loss_cls(output_feature["type"],
                                 DefaultLossType(output_feature["type"]))),
        "decoder", [type |-> DefaultDecoderType(output_feature["type"])])

\* output_type_registry[type].default_validation_metric
default_validation_metric(ft) ==
    CASE ft = "category" -> "accuracy"
      [] ft = "binary" -> "roc_auc"
      [] ft = "number" -> "mean_squared_error"
      [] OTHER -> "loss"

\* the section of merge_with_defaults that fills config[DEFAULTS]
MergedDefaults(config) ==
    LET given == Get(config, "defaults", EmptyDict)
    IN  [ft \in INPUT_TYPES \cup DOMAIN given |->
            IF ft \notin DOMAIN given
            THEN [preprocessing |-> InputPreprocessingConfig(ft)]
            ELSE IF ft \notin INPUT_TYPES THEN given[ft]
            ELSE IF "preprocessing" \notin DOMAIN given[ft]
            THEN Put(given[ft], "preprocessing", InputPreprocessingConfig(ft))
            ELSE Put(given[ft], "preprocessing",
                     merge_dict(InputPreprocessingConfig(ft), given[ft]["preprocessing"]))]

\* lines 291-302 and 323-334: the global defaults of the section laid on the feature
ApplyDefaultType(feature, section, params) ==
    LET typed == IF "type" \in DOMAIN params
                 THEN Put(feature, section, Str(params["type"]))
                 ELSE feature
    IN  merge_dict(typed, Pop(params, {"type"}))

\* one iteration of the input feature loop
MergeInputFeature(input_feature, config_defaults, model_type) ==
    LET f0 == IF model_type = "gbm"
              THEN remove_ecd_params(Put(input_feature, "encoder", Str("passthrough")))
              ELSE input_feature
        f1 == populate_input_defaults(f0)
        params == _get_defaults_section_for_feature_type(
                      f1["type"], config_defaults, DOMAIN config_defaults, "encoder")
    IN  ApplyDefaultType(f1, "encoder", params)

\* one iteration of the output feature loop
MergeOutputFeature(output_feature, config_defaults, model_type) ==
    LET f0 == IF model_type = "gbm"
              THEN remove_ecd_params(Put(output_feature, "decoder", Str("passthrough")))
              ELSE output_feature
        f1 == populate_output_defaults(f0)
        f2 == set_default_value(f1, "preprocessing", EmptyDict)
        f3 == Put(f2, "preprocessing",
                  set_default_value(f2["preprocessing"], "missing_value_strategy", "drop_row"))
        dparams == _get_defaults_section_for_feature_type(
                       f3["type"], config_defaults, DOMAIN config_defaults, "decoder")
        f4 == ApplyDefaultType(f3, "decoder", dparams)
        lparams == _get_defaults_section_for_feature_type(
                       f4["type"], config_defaults, DOMAIN config_defaults, "loss")
    IN  Put(f4, "loss", merge_dict(f4["loss"], lparams))

----------------------------------------------------------------------------
(* Config checks: each is TRUE when check() raises ConfigValidationError *)

\* None where a config holds it in the place of a section dict
NoneSection == [is_none |-> TRUE]

\* get_encoder_registry()[feature_type]: the encoder names registered for the type
encoder_registry(feature_type) ==
    IF feature_type = "text"
    THEN {"embed", "parallel_cnn", "stacked_cnn", "stacked_parallel_cnn", "rnn", "cnnrnn",
          "transformer"}
    ELSE {"passthrough", "dense"}

\* get_decoder_registry(): output feature types and the decoder names of each
decoder_registry ==
    [ft \in INPUT_TYPES |->
        CASE ft = "text" -> {"generator", "tagger"}
          [] ft = "category" -> {"classifier"}
          [] OTHER -> {"regressor"}]

optimizer_registry == {"adam", "adadelta", "sgd"}

\* get_combiner_registry(): the registered combiner types
get_combiner_registry == {"concat", "sequence_concat", "comparator", "sequence", "tabnet"}

\* check_basic_required_parameters(config): TRUE when it raises
\* ConfigValidationError, FALSE when it returns
check_basic_required_parameters(config) ==
    LET input_raises ==
            \E i \in 1..Len(config["input_features"]) :
                LET input_feature == config["input_features"][i]
                IN  \/ "name" \notin DOMAIN input_feature
                    \/ "type" \notin DOMAIN input_feature
                    \/ /\ "encoder" \in DOMAIN input_feature
                       /\ "type" \in DOMAIN input_feature["encoder"]
                       /\ input_feature["encoder"]["type"]
                            \notin encoder_registry(input_feature["type"])
        output_raises ==
            \E i \in 1..Len(config["output_features"]) :
                LET output_feature == config["output_features"][i]
                IN  \/ "name" \notin DOMAIN output_feature
                    \/ "type" \notin DOMAIN output_feature
                    \/ output_feature["type"] \notin DOMAIN decoder_registry
                    \/ /\ "decoder" \in DOMAIN output_feature
                       /\ "type" \in DOMAIN output_feature["decoder"]
                       /\ output_feature["decoder"]["type"]
                            \notin decoder_registry[output_feature["type"]]
        ecd == Get(config, "model_type", "ecd") = "ecd"
    IN  IF input_raises \/ output_raises THEN TRUE
        ELSE IF ecd /\ "combiner" \notin DOMAIN config THEN FALSE
        ELSE IF ecd /\ "type" \notin DOMAIN config["combiner"] THEN TRUE
        ELSE IF ecd /\ config["combiner"]["type"] \notin get_combiner_registry THEN TRUE
        ELSE IF "trainer" \in DOMAIN config /\ config["trainer"] = NoneSection THEN TRUE
        ELSE /\ "trainer" \in DOMAIN config
             /\ "optimizer" \in DOMAIN config["trainer"]
             /\ \/ config["trainer"]["optimizer"] = NoneSection
                \/ /\ "type" \in DOMAIN config["trainer"]["optimizer"]
                   /\ config["trainer"]["optimizer"]["type"] \notin optimizer_registry

NameSet(features) == {features[i]["name"] : i \in 1..Len(features)}

CheckFeatureNamesUnique(config) ==
    LET input_features == config["input_features"]
        output_features == config["output_features"]
    IN  Cardinality(NameSet(input_features)) + Cardinality(NameSet(output_features))
            # Len(input_features) + Len(output_features)

CheckTiedFeaturesValid(config) ==
    LET input_features == config["input_features"]
    IN  \E i \in 1..Len(input_features) :
            /\ input_features[i]["tied"] \notin {None, ""}
            /\ input_features[i]["tied"] \notin NameSet(input_features)

CheckGBMSingleOutputFeature(config) ==
    config["model_type"] = "gbm" /\ Len(config["output_features"]) # 1

CheckGBMFeatureTypes(config) ==
    /\ config["model_type"] = "gbm"
    /\ \E i \in 1..Len(config["input_features"]) :
            config["input_features"][i]["type"] \notin {"binary", "category", "number"}

SEQUENCE_OUTPUT_FEATURE_TYPES == {"sequence", "text", "set", "vector"}

\* `section == name` for a section dict and a string: a dict equals no string
DictEqualsStr(section, name) == FALSE

CheckSequenceConcatCombinerRequirements(config) ==
    /\ ~ (config["model_type"] # "ecd")
    /\ ~ (~ DictEqualsStr(config["combiner"], "sequence_concat"))
    /\ ~ \E i \in 1..Len(config["input_features"]) :
            config["input_features"][i]["type"] \in SEQUENCE_OUTPUT_FEATURE_TYPES

CheckComparatorCombinerRequirements(config) ==
    /\ ~ (config["model_type"] # "ecd")
    /\ ~ (~ DictEqualsStr(config["combiner"], "comparator"))
    /\ \E entity \in {"entity_1", "entity_2"} :
        \E k \in 1..Len(config["combiner"][entity]) :
            config["combiner"][entity][k] \notin NameSet(config["input_features"])

\* trainer types the trainer schema of a model type accepts
TrainerTypeOptions(model_type) ==
    IF model_type = "gbm" THEN {"lightgbm_trainer"} ELSE {"trainer", "ray_legacy_trainer"}

\* structural validation of the resolved dict; TRUE when it raises
check_schema(config) ==
    \/ Len(config["input_features"]) = 0
    \/ Len(config["output_features"]) = 0
    \/ config["model_type"] = "gbm" /\ Len(config["output_features"]) > 1
    \/ config["trainer"]["type"] \notin TrainerTypeOptions(config["model_type"])

\* the first audio or image input feature, in list order, at which the loop of
\* CheckRayBackendInMemoryPreprocessing stops: 0 when it runs to the end
FirstLazyStop(config) ==
    LET F == config["input_features"]
        stops(i) ==
            /\ F[i]["type"] \in {"audio", "image"}
            /\ \/ "preprocessing" \notin DOMAIN F[i]
               \/ "in_memory" \notin DOMAIN F[i]["preprocessing"]
               \/ /\ F[i]["preprocessing"]["in_memory"] = "False"
                  /\ config["backend"]["type"] # "ray"
        S == {i \in 1..Len(F) : stops(i)}
    IN  IF S = {} THEN 0 ELSE CHOOSE i \in S : \A j \in S : i <= j

\* CheckRayBackendInMemoryPreprocessing.check(config): the exception it raises,
\* "none" when it returns; a missing key read by subscript is a KeyError
CheckRayBackendInMemoryPreprocessing(config) ==
    IF "backend" \notin DOMAIN config THEN "none"
    ELSE IF "type" \notin DOMAIN config["backend"] THEN "KeyError"
    ELSE IF /\ config["backend"]["type"] = "ray"
            /\ \/ "trainer" \notin DOMAIN config
               \/ "preprocessing" \notin DOMAIN config["trainer"]
               \/ "in_memory" \notin DOMAIN config["trainer"]["preprocessing"]
    THEN "KeyError"
    ELSE IF /\ config["backend"]["type"] = "ray"
            /\ config["trainer"]["preprocessing"]["in_memory"] = "False"
    THEN "ConfigValidationError"
    ELSE LET i == FirstLazyStop(config)
             F == config["input_features"]
         IN  IF i = 0 THEN "none"
             ELSE IF \/ "preprocessing" \notin DOMAIN F[i]
                     \/ "in_memory" \notin DOMAIN F[i]["preprocessing"]
             THEN "KeyError"
             ELSE "ConfigValidationError"

\* truth value of an optional sampling ratio: None and zero are false
Truthy(v) == v \notin {None, "0", "0.0"}

\* CheckClassBalancePreprocessing.check(config): TRUE when it raises
CheckClassBalancePreprocessing(config) ==
    /\ \/ Truthy(config["preprocessing"]["oversample_minority"])
       \/ Truthy(config["preprocessing"]["undersample_majority"])
    /\ \/ Len(config["output_features"]) # 1
       \/ config["output_features"][1]["type"] # "binary"

\* the exclusivity check that never raises
SamplingNeverExclusive(config) == FALSE

\* CheckSamplingExclusivity.check(config): TRUE when it raises
CheckSamplingExclusivity(config) ==
    /\ Truthy(config["preprocessing"]["oversample_minority"])
    /\ Truthy(config["preprocessing"]["undersample_majority"])

\* balance_data(dataset_df, output_features, preprocessing_parameters, backend):
\* the exception it raises, "none" when it returns the resampled frame; the
\* frame holds rows of both classes of the target column
balance_data(output_features, preprocessing_parameters) ==
    IF Len(output_features) # 1 THEN "ValueError"
    ELSE IF output_features[1]["type"] # "binary" THEN "ValueError"
    ELSE IF "proc_column" \notin DOMAIN output_features[1] THEN "KeyError"
    ELSE IF /\ Truthy(preprocessing_parameters["oversample_minority"])
            /\ Truthy(preprocessing_parameters["undersample_majority"])
    THEN "ValueError"
    ELSE "none"

\* validate_config(config): the exception it raises, "none" when it returns
validate_config(config) ==
    IF check_schema(config) THEN "ValidationError"
    ELSE IF \/ CheckFeatureNamesUnique(config)
            \/ CheckTiedFeaturesValid(config)
            \/ CheckGBMSingleOutputFeature(config)
            \/ CheckGBMFeatureTypes(config)
            \/ CheckSequenceConcatCombinerRequirements(config)
            \/ CheckComparatorCombinerRequirements(config)
            \/ CheckRayBackendInMemoryPreprocessing(config) = "ConfigValidationError"
            \/ CheckClassBalancePreprocessing(config)
            \/ CheckSamplingExclusivity(config)
    THEN "ConfigValidationError"
    ELSE "none"

----------------------------------------------------------------------------
(* ModelConfig construction and update *)

COMBINER_TYPES == {"concat", "sequence_concat", "comparator", "sequence", "tabnet"}

\* combiner_registry.get(type).get_schema_cls()()
combiner_registry(type) ==
    CASE type = "concat" -> ConcatCombinerConfig
      [] type = "sequence_concat" ->
            [type |-> "sequence_concat", main_sequence_feature |-> None, reduce_output |-> None]
      [] type = "comparator" ->
            [type |-> "comparator", entity_1 |-> <<>>, entity_2 |-> <<>>, output_size |-> "256"]
      [] type = "sequence" ->
            [type |-> "sequence", main_sequence_feature |-> None, reduce_output |-> None,
             encoder |-> get_encoder_cls("sequence", "parallel_cnn")]
      [] type = "tabnet" -> [type |-> "tabnet", size |-> "32"]

\* merge_with_defaults(config): the exception raised ("none") and the merged
\* config; upgrade_deprecated_fields leaves a config in the current format as
\* it is and the default splitter accepts it
merge_with_defaults(config) ==
    IF _perform_sanity_checks(config) THEN [err |-> "AssertionError", config |-> config]
    ELSE
    LET columns ==
            [config EXCEPT
                !["input_features"] = _set_proc_column(_set_feature_column(@)),
                !["output_features"] = _set_proc_column(_set_feature_column(@))]
        merged == _merge_hyperopt_with_trainer(columns)
    IN  IF merged.err # "none" THEN merged
        ELSE
        LET c == merged.config
            config_defaults == MergedDefaults(c)
            preprocessing ==
                merge_dict(base_preprocessing_parameters, Get(c, "preprocessing", EmptyDict))
            features == c["input_features"] \o c["output_features"]
            model_type == Get(c, "model_type", "ecd")
            trainer ==
                set_default_value(
                    merge_dict(IF model_type = "gbm" THEN GBMTrainerConfig ELSE ECDTrainerConfig,
                               Get(c, "trainer", EmptyDict)),
                    "validation_metric",
                    default_validation_metric(c["output_features"][1]["type"]))
            combiner ==
                LET given == Get(c, "combiner", [type |-> "concat"])
                IN  merge_dict(given, merge_dict(combiner_registry(given["type"]), given))
            out == [k \in DOMAIN c \cup {"defaults", "preprocessing", "model_type", "trainer",
                                         "combiner"} |->
                        CASE k = "defaults" -> config_defaults
                          [] k = "preprocessing" -> preprocessing
                          [] k = "model_type" -> model_type
                          [] k = "trainer" -> trainer
                          [] k = "combiner" -> combiner
                          [] k = "input_features" ->
                                [i \in 1..Len(c[k]) |->
                                    MergeInputFeature(c[k][i], config_defaults, model_type)]
                          [] k = "output_features" ->
                                [i \in 1..Len(c[k]) |->
                                    MergeOutputFeature(c[k][i], config_defaults, model_type)]
                          [] k = "hyperopt" ->
                                Put(c[k], "executor",
                                    set_default_value(c[k]["executor"], "type", "ray"))
                          [] OTHER -> c[k]]
        IN  IF "stratify" \notin DOMAIN preprocessing
            THEN [err |-> "KeyError", config |-> c]
            ELSE IF /\ preprocessing["stratify"] # None
                    /\ \E i \in 1..Len(features) :
                        /\ features[i]["column"] = preprocessing["stratify"]
                        /\ \A j \in 1..(i - 1) :
                            features[j]["column"] # preprocessing["stratify"]
                        /\ features[i]["type"] \notin {"binary", "category"}
            THEN [err |-> "ValueError", config |-> c]
            ELSE IF "hyperopt" \in DOMAIN c /\ "executor" \notin DOMAIN c["hyperopt"]
            THEN [err |-> "KeyError", config |-> c]
            ELSE [err |-> "none", config |-> out]

Raise(e) == [err |-> e, obj |-> NoObj]

\* the gbm loop leaving the encoder of the feature as it was resolved
GBMEncoderKept(feature_cls) == feature_cls

\* the GBM branch of __init__ on one input feature
GBMEncoder(feature_cls) ==
    IF feature_cls["type"] = "binary"
    THEN [feature_cls EXCEPT !["encoder"] = BinaryPassthroughEncoderConfig]
    ELSE [feature_cls EXCEPT !["encoder"] = PassthroughEncoderConfig]

\* ModelConfig.__init__ / from_dict: the exception raised ("none") and the object built
ModelConfig(config_dict) ==
    LET upgraded_config == _upgrade_config(config_dict)
        defaults ==
            IF "defaults" \in DOMAIN upgraded_config
            THEN _set_attributes(DefaultsConfig, upgraded_config["defaults"], None)
            ELSE DefaultsConfig
        in_dicts == _set_proc_column(_set_feature_column(upgraded_config["input_features"]))
        out_dicts == _set_proc_column(_set_feature_column(upgraded_config["output_features"]))
        input_features == _parse_features(defaults, <<>>, in_dicts, "input_features", TRUE)
        output_features == _parse_features(defaults, <<>>, out_dicts, "output_features", TRUE)
        gbm == Get(upgraded_config, "model_type", "ecd") = "gbm"
        user_trainer == Get(upgraded_config, "trainer", EmptyDict)
        user_combiner == Get(upgraded_config, "combiner", EmptyDict)
    IN  IF gbm /\ "type" \in DOMAIN user_trainer /\ user_trainer["type"] # "lightgbm_trainer"
        THEN Raise("ValidationError")
        ELSE IF gbm /\ \E i \in 1..Len(input_features) :
                        input_features[i]["type"] \notin {"binary", "category", "number"}
        THEN Raise("ValidationError")
        ELSE IF "combiner" \in DOMAIN upgraded_config /\ "type" \notin DOMAIN user_combiner
        THEN Raise("KeyError")
        ELSE IF /\ "combiner" \in DOMAIN upgraded_config
                /\ user_combiner["type"] \notin COMBINER_TYPES
        THEN Raise("AttributeError")
        ELSE
        LET model_type == IF gbm THEN "gbm" ELSE "ecd"
            inputs1 == IF gbm
                       THEN [i \in 1..Len(input_features) |-> GBMEncoder(input_features[i])]
                       ELSE input_features
            trainer0 == IF gbm THEN GBMTrainerConfig ELSE ECDTrainerConfig
            combiner0 ==
                IF "combiner" \in DOMAIN upgraded_config
                   /\ ConcatCombinerConfig["type"] # user_combiner["type"]
                THEN combiner_registry(user_combiner["type"])
                ELSE ConcatCombinerConfig
            combiner ==
                IF "combiner" \in DOMAIN upgraded_config
                THEN _set_attributes(combiner0, user_combiner,
                                     IF combiner0["type"] = "sequence" THEN "sequence" ELSE None)
                ELSE combiner0
            trainer1 == IF "trainer" \in DOMAIN upgraded_config
                        THEN _set_attributes(trainer0, user_trainer, None)
                        ELSE trainer0
            preprocessing ==
                IF "preprocessing" \in DOMAIN upgraded_config
                THEN _set_attributes(PreprocessingConfig, upgraded_config["preprocessing"], None)
                ELSE PreprocessingConfig
            hyp == _set_hyperopt_defaults(trainer1, Get(upgraded_config, "hyperopt", EmptyDict))
            self == [model_type |-> model_type,
                     input_features |-> inputs1,
                     output_features |-> output_features,
                     combiner |-> combiner,
                     trainer |-> hyp.trainer,
                     preprocessing |-> preprocessing,
                     hyperopt |-> hyp.hyperopt,
                     defaults |-> defaults]
        IN  IF hyp.err # "none" THEN Raise(hyp.err)
            ELSE IF validate_config(to_dict(self)) # "none"
            THEN Raise(validate_config(to_dict(self)))
            ELSE [err |-> "none", obj |-> self]

from_dict(dict_config) == ModelConfig(dict_config)

\* number of leading features of a delta that name an attribute of the container
RECURSIVE KnownPrefix(_, _, _)
KnownPrefix(container, features, i) ==
    IF i > Len(features) \/ IndexOf(container, features[i]["name"]) = 0 THEN i - 1
    ELSE KnownPrefix(container, features, i + 1)

\* update_with_dict that takes the top-level sections of the delta as well
update_with_dict_every_section(self, config_dict) ==
    [err |-> "none",
     obj |-> [self EXCEPT
                !.model_type = Get(config_dict, "model_type", @),
                !.hyperopt = Get(config_dict, "hyperopt", @),
                !.preprocessing = IF "preprocessing" \in DOMAIN config_dict
                                  THEN _set_attributes(@, config_dict["preprocessing"], None)
                                  ELSE @]]

\* ModelConfig.update_with_dict: the exception raised ("none") and the object afterwards;
\* getattr on a name the container does not hold raises after the earlier features
\* of the delta have been applied
update_with_dict(self, config_dict) ==
    LET in_delta == config_dict["input_features"]
        out_delta == config_dict["output_features"]
        in_known == KnownPrefix(self.input_features, in_delta, 1)
        out_known == KnownPrefix(self.output_features, out_delta, 1)
        input_features == _parse_features(self.defaults, self.input_features,
                                          SubSeq(in_delta, 1, in_known), "input_features", FALSE)
        output_features == _parse_features(self.defaults, self.output_features,
                                           SubSeq(out_delta, 1, out_known), "output_features",
                                           FALSE)
        combiner ==
            IF "combiner" \in DOMAIN config_dict
            THEN _set_attributes(self.combiner, config_dict["combiner"],
                                 IF self.combiner["type"] = "sequence" THEN "sequence" ELSE None)
            ELSE self.combiner
        trainer ==
            IF "trainer" \in DOMAIN config_dict
            THEN _set_attributes(self.trainer, config_dict["trainer"], None)
            ELSE self.trainer
    IN  IF in_known < Len(in_delta)
        THEN [err |-> "AttributeError",
              obj |-> [self EXCEPT !.input_features = input_features]]
        ELSE IF out_known < Len(out_delta)
        THEN [err |-> "AttributeError",
              obj |-> [self EXCEPT !.input_features = input_features,
                                   !.output_features = output_features]]
        ELSE [err |-> "none",
              obj |-> [self EXCEPT !.input_features = input_features,
                                   !.output_features = output_features,
                                   !.combiner = combiner,
                                   !.trainer = trainer]]

\* disable that also forgets the column derived at construction
disable_and_reset(feature) ==
    IF ~ feature["active"] THEN feature
    ELSE [feature EXCEPT !["active"] = FALSE, !["column"] = None]

\* BaseFeatureConfig.enable / disable on a feature object
enable(feature) == IF feature["active"] THEN feature ELSE [feature EXCEPT !["active"] = TRUE]

disable(feature) == IF ~ feature["active"] THEN feature ELSE [feature EXCEPT !["active"] = FALSE]

----------------------------------------------------------------------------
(* The configs the operations are applied to *)

\* most mutating calls (enable, disable, update_with_dict) made on one object
MaxOps == 2

\* {} and the one-key dicts {k: v}, v in S: an optional key of a dict
Opt(k, S) == {EmptyDict} \cup {[x \in {k} |-> v] : v \in S}

EncoderDicts(ft) ==
    CASE ft = "text" ->
            {[type |-> "rnn"], [type |-> "rnn", cell_type |-> "lstm"], [num_filters |-> "64"],
             [reduce_output |-> "max"],
             [type |-> "parallel_cnn", num_filters |-> "64"]}
      [] ft = "category" -> {[type |-> "passthrough"], [type |-> "dense", embedding_size |-> "8"]}
      [] OTHER -> {[type |-> "dense"]}

DecoderDicts(ft) ==
    CASE ft = "text" ->
            {[type |-> "tagger"], [type |-> "generator", cell_type |-> "lstm"],
             [cell_type |-> "lstm"]}
      [] ft = "category" -> {[type |-> "classifier", num_classes |-> "10"]}
      [] OTHER -> {[type |-> "regressor", use_bias |-> "False"]}

PreprocessingDicts == {[missing_value_strategy |-> "fill_with_mode"], [lowercase |-> "True"]}

\* defaults layering on the input side: per-feature against global encoder and
\* preprocessing values, with an output feature of the same type
InputLayeringConfigs ==
    UNION {
        {[input_features |-> <<[name |-> "a", type |-> ft] @@ e @@ p>>,
          output_features |-> <<[name |-> "y", type |-> ft]>>] @@ d :
            e \in Opt("encoder", EncoderDicts(ft)),
            p \in Opt("preprocessing", PreprocessingDicts),
            d \in Opt("defaults",
                      {[x \in {ft} |-> de @@ dp] :
                          de \in Opt("encoder", EncoderDicts(ft)),
                          dp \in Opt("preprocessing", PreprocessingDicts)})} :
        ft \in {"text", "category"}}

\* defaults layering on the output side: per-feature against global decoder and
\* loss values, with an input feature of the same type
OutputLayeringConfigs ==
    UNION {
        {[input_features |-> <<[name |-> "a", type |-> ft]>>,
          output_features |-> <<[name |-> "y", type |-> ft] @@ k @@ l @@ q @@ r>>] @@ d :
            k \in Opt("decoder", DecoderDicts(ft)),
            l \in Opt("loss", {[weight |-> "2.0"]}),
            q \in Opt("preprocessing", {[missing_value_strategy |-> "fill_with_mode"]}),
            r \in Opt("reduce_input", {"mean"}),
            d \in Opt("defaults",
                      {[x \in {ft} |-> dk @@ dl] :
                          dk \in Opt("decoder", DecoderDicts(ft)),
                          dl \in Opt("loss", {[weight |-> "3.0"]})})} :
        ft \in {"text", "category"}}

LayeringConfigs == InputLayeringConfigs \cup OutputLayeringConfigs

TrainerTypeDicts ==
    {EmptyDict, [type |-> "lightgbm_trainer"], [type |-> "trainer"],
     [type |-> "ray_legacy_trainer"]}

\* model types: feature types, output counts and trainer types under ecd and gbm
ModelTypeConfigs ==
    {[input_features |-> ins, output_features |-> outs] @@ m @@ t :
        ins \in {<<[name |-> "a", type |-> ft] @@ e>> : ft \in INPUT_TYPES,
                    e \in Opt("encoder", {[type |-> "dense"]})}
                \cup {<<[name |-> "a", type |-> ft], [name |-> "b", type |-> gt]>> :
                        ft \in INPUT_TYPES, gt \in {"number", "text"}},
        outs \in {<<[name |-> "y", type |-> "number"]>>,
                  <<[name |-> "y", type |-> "number"], [name |-> "z", type |-> "category"]>>,
                  <<[name |-> "y", type |-> "number"], [name |-> "y", type |-> "category"]>>},
        m \in Opt("model_type", {"ecd", "gbm"}),
        t \in Opt("trainer", TrainerTypeDicts)}

SchedulerDicts ==
    {EmptyDict, [type |-> "async_hyperband"],
     [type |-> "async_hyperband", time_attr |-> "time_total_s"],
     [type |-> "async_hyperband", time_attr |-> "training_iteration"],
     [type |-> "async_hyperband", max_t |-> "10"],
     [type |-> "async_hyperband", max_t |-> "10", time_attr |-> "time_total_s"],
     [type |-> "async_hyperband", max_t |-> "10", time_attr |-> "training_iteration"]}

HyperoptDicts ==
    {EmptyDict, [executor |-> [type |-> "ray"]]}
    \cup {[executor |-> [scheduler |-> sch]] : sch \in SchedulerDicts}
    \cup {[executor |-> [type |-> "serial", scheduler |-> sch]] : sch \in SchedulerDicts}

HyperoptTrainerDicts ==
    {EmptyDict, [epochs |-> "20"], [epochs |-> "10"], [early_stop |-> "7"],
     [early_stop |-> "-1"], [epochs |-> "10", early_stop |-> "7"]}

\* hyperopt schedulers against trainer sections, under ecd and gbm
HyperoptConfigs ==
    {[input_features |-> <<[name |-> "a", type |-> "number"]>>,
      output_features |-> <<[name |-> "y", type |-> "number"]>>] @@ m @@ t @@ h :
        m \in Opt("model_type", {"gbm"}),
        t \in Opt("trainer", HyperoptTrainerDicts),
        h \in Opt("hyperopt", HyperoptDicts)}

NamedFeatures(names, types) ==
    {<<[name |-> n, type |-> ft]>> : n \in names, ft \in types}
    \cup {<<[name |-> n, type |-> ft], [name |-> m, type |-> gt]>> :
            n \in names, m \in names, ft \in types, gt \in types}

\* feature names: distinct and shared names within and across the two lists
NameConfigs ==
    {[input_features |-> ins, output_features |-> outs] @@ m :
        ins \in NamedFeatures({"a", "b"}, {"number", "category"}),
        outs \in NamedFeatures({"a", "y"}, {"number"}),
        m \in Opt("model_type", {"gbm"})}

\* type-discriminated sections outside the features
SectionConfigs ==
    {[input_features |-> <<[name |-> "a", type |-> "text", tied |-> td],
                           [name |-> "b", type |-> "text"]>>,
      output_features |-> <<[name |-> "y", type |-> "category"]>>] @@ t @@ p @@ c :
        td \in {None, "", "a", "b", "c"},
        t \in Opt("trainer", {[optimizer |-> [type |-> "adadelta"]],
                              [optimizer |-> [type |-> "adadelta", rho |-> "0.5"]],
                              [optimizer |-> [beta1 |-> "0.8"]]}),
        p \in Opt("preprocessing", {[split |-> [type |-> "fixed"]],
                                    [split |-> [probabilities |-> "0.8,0.1,0.1"]],
                                    [sample_ratio |-> "0.5"]}),
        c \in Opt("combiner", {[type |-> "concat", output_size |-> "512"],
                               [type |-> "tabnet"], [type |-> "sequence_concat"],
                               [output_size |-> "512"], [type |-> "invalid"]})}

\* the configs whose objects are kept and mutated after construction
SessionConfigs ==
    {[input_features |-> <<[name |-> "a", type |-> "text", tied |-> "b"],
                           [name |-> "b", type |-> "text"]>>,
      output_features |-> <<[name |-> "y", type |-> "category"]>>],
     [model_type |-> "gbm",
      input_features |-> <<[name |-> "a", type |-> "category"],
                           [name |-> "b", type |-> "number"]>>,
      output_features |-> <<[name |-> "y", type |-> "number"]>>],
     [input_features |-> <<[name |-> "a", type |-> "number"]>>,
      output_features |-> <<[name |-> "y", type |-> "text"],
                            [name |-> "z", type |-> "number"]>>,
      trainer |-> [epochs |-> "10"],
      hyperopt |-> [executor |-> [scheduler |-> [type |-> "async_hyperband",
                                                 max_t |-> "10"]]]]}

\* feature lists with one feature and with none
FewFeaturesConfigs ==
    {[input_features |-> ins, output_features |-> outs] @@ m :
        ins \in {<<>>, <<[name |-> "a", type |-> "number"]>>},
        outs \in {<<>>, <<[name |-> "y", type |-> "number"]>>},
        m \in Opt("model_type", {"ecd", "gbm"})}

\* trainer sections as check_basic_required_parameters may receive them
TrainerSections ==
    {NoneSection, EmptyDict, [optimizer |-> NoneSection], [optimizer |-> [lr |-> "0.1"]],
     [optimizer |-> [type |-> "invalid"]]}
    \cup {[optimizer |-> [type |-> o]] : o \in optimizer_registry}

\* configs before construction: trainer and optimizer absent, None, empty,
\* registered and unregistered, with and without a combiner, under ecd and gbm
TrainerConfigs ==
    {[input_features |-> <<[name |-> "a", type |-> "category", encoder |-> [type |-> e]],
                           [name |-> "b", type |-> "number"]>>,
      output_features |-> <<[name |-> "y", type |-> "binary"]>>] @@ m @@ c @@ t :
        e \in {"dense", "invalid"},
        m \in Opt("model_type", {"ecd", "gbm"}),
        c \in Opt("combiner", {[type |-> "tabnet"], [type |-> "invalid"], EmptyDict}),
        t \in Opt("trainer", TrainerSections)}

\* configs handed to the Ray in-memory check: an audio, image or text input
\* loaded in memory or lazily, no backend, a local or a ray backend, a trainer
\* with and without a preprocessing.in_memory entry
BackendConfigs ==
    {[input_features |-> <<[name |-> "a", type |-> t,
                            preprocessing |-> [in_memory |-> m]],
                           [name |-> "b", type |-> "number"]>>,
      output_features |-> <<[name |-> "y", type |-> "binary"]>>,
      trainer |-> tr] @@ b :
        t \in {"audio", "image", "text"},
        m \in {"True", "False"},
        tr \in {EmptyDict} \cup {[preprocessing |-> [in_memory |-> x]] : x \in {"True", "False"}},
        b \in Opt("backend", {[type |-> "local"], [type |-> "ray"]})}

\* resolved configs with and without class balancing: either sampling ratio
\* None or set, one binary output, one output of another type, two outputs
BalanceOutputs ==
    {<<[name |-> "y", type |-> t, proc_column |-> "y"]>> : t \in {"binary", "category", "number"}}
    \cup {<<[name |-> "y", type |-> t, proc_column |-> "y"],
            [name |-> "z", type |-> "binary", proc_column |-> "z"]>> : t \in {"binary", "number"}}

BalanceConfigs ==
    {[input_features |-> <<[name |-> "a", type |-> "number", proc_column |-> "a"]>>,
      output_features |-> outs,
      preprocessing |-> [oversample_minority |-> o, undersample_majority |-> u]] :
        outs \in BalanceOutputs, o \in {None, "0.5"}, u \in {None, "0.5"}}

\* combiners with requirements on the input features: sequence_concat with and
\* without a sequential input, comparator with entities that are and are not
\* input feature names
CombinerConfigs ==
    {[input_features |-> <<[name |-> "a", type |-> ft], [name |-> "b", type |-> "number"]>>,
      output_features |-> <<[name |-> "y", type |-> "number"]>>,
      combiner |-> c] @@ m :
        ft \in {"text", "category"},
        c \in {[type |-> "sequence_concat"], [type |-> "concat"], [type |-> "comparator"]}
              \cup {[type |-> "comparator", entity_1 |-> <<e1>>, entity_2 |-> <<e2>>] :
                        e1 \in {"a", "c"}, e2 \in {"b", "y"}},
        m \in Opt("model_type", {"ecd", "gbm"})}

\* two features of one type on each side, the first with sections of its own,
\* the second with none, with and without global defaults for the type
SiblingConfigs ==
    {[input_features |-> <<[name |-> "a", type |-> "text"] @@ e @@ p,
                           [name |-> "b", type |-> "text"]>>,
      output_features |-> <<[name |-> "y", type |-> "category"] @@ k @@ l,
                            [name |-> "z", type |-> "category"]>>] @@ d :
        e \in Opt("encoder", {[num_filters |-> "64"], [type |-> "rnn", cell_type |-> "lstm"]}),
        p \in Opt("preprocessing", {[lowercase |-> "True"]}),
        k \in Opt("decoder", DecoderDicts("category")),
        l \in Opt("loss", {[weight |-> "2.0"]}),
        d \in Opt("defaults", {[text |-> [encoder |-> [reduce_output |-> "max"]],
                                category |-> [loss |-> [weight |-> "3.0"]]]})}

\* configs handed to merge_with_defaults: a text input and a category output
\* with and without an encoder and a decoder of their own, global defaults that
\* name the same type, another type or none, with and without the stratify key
MergeEncoderDicts == {[type |-> "rnn"], [type |-> "parallel_cnn", num_filters |-> "64"]}

MergeDecoderDicts == {[type |-> "classifier"], [type |-> "projector"]}

MergeDefaults ==
    {EmptyDict}
    \cup {[text |-> [encoder |-> e]] :
            e \in {[type |-> "rnn"], [type |-> "embed"], [reduce_output |-> "max"]}}
    \cup {[category |-> [decoder |-> k]] :
            k \in {[type |-> "classifier"], [type |-> "projector"], [num_classes |-> "10"]}}

MergeConfigs ==
    {[input_features |-> <<[name |-> "a", type |-> "text"] @@ e>>,
      output_features |-> <<[name |-> "y", type |-> "category"] @@ k>>] @@ d @@ p @@ m :
        e \in Opt("encoder", MergeEncoderDicts),
        k \in Opt("decoder", MergeDecoderDicts),
        d \in Opt("defaults", MergeDefaults),
        p \in Opt("preprocessing", {[stratify |-> None], [stratify |-> "y"],
                                    [stratify |-> "a"]}),
        m \in Opt("model_type", {"ecd", "gbm"})}

Configs == LayeringConfigs \cup ModelTypeConfigs \cup HyperoptConfigs \cup NameConfigs
           \cup SectionConfigs \cup SessionConfigs \cup FewFeaturesConfigs
           \cup CombinerConfigs \cup SiblingConfigs

\* the deltas update_with_dict is called with on an object: sections of the
\* features and attributes the object holds, and one feature it does not hold
FeatureDeltas(container, section, dicts(_)) ==
    UNION {{<<[name |-> container[i]["name"], type |-> container[i]["type"]]
              @@ [x \in {section} |-> d]>> : d \in dicts(container[i]["type"])} :
           i \in 1..Len(container)}

\* encoder sections of a delta: those of a config and, for text, one that names
\* a field of another encoder type
EncoderDeltas(ft) ==
    EncoderDicts(ft)
    \cup IF ft = "text" THEN {[type |-> "embed", num_filters |-> "64"]} ELSE {}

PreprocessingDeltas(ft) == {[lowercase |-> "True"]}

ReduceInputDeltas(ft) == {"mean"}

Deltas(self) ==
    {[input_features |-> ins, output_features |-> <<>>] :
        ins \in FeatureDeltas(self.input_features, "encoder", EncoderDeltas)
                \cup FeatureDeltas(self.input_features, "preprocessing", PreprocessingDeltas)
                \cup {<<[name |-> "new", type |-> "number"]>>}}
    \cup
    {[input_features |-> <<>>, output_features |-> outs] :
        outs \in FeatureDeltas(self.output_features, "decoder", DecoderDicts)
                 \cup FeatureDeltas(self.output_features, "reduce_input", ReduceInputDeltas)}
    \cup
    {[input_features |-> <<>>, output_features |-> <<>>] @@ x :
        x \in {[trainer |-> [early_stop |-> "7"]], [trainer |-> [type |-> "trainer"]],
               [combiner |-> [type |-> "tabnet"]], [combiner |-> [output_size |-> "128"]],
               [model_type |-> "ecd"], [model_type |-> "gbm"], [hyperopt |-> EmptyDict],
               [preprocessing |-> [sample_ratio |-> "0.5"]],
               [defaults |-> [number |-> [preprocessing |->
                                [missing_value_strategy |-> "fill_with_mean"]]]]}
              \cup {[trainer |-> [optimizer |-> o]] :
                        o \in IF "optimizer" \in DOMAIN self.trainer
                              THEN {[type |-> "adadelta"]} ELSE {}}}

----------------------------------------------------------------------------
(* Operations *)

Init ==
    /\ cfg = EmptyDict
    /\ obj = NoObj
    /\ err = "none"
    /\ op = "init"
    /\ nops = 0
    /\ upd = FALSE
    /\ mrg = [err |-> "none", config |-> EmptyDict]
    /\ pre = NoObj
    /\ delta = EmptyDict

\* ModelConfig.from_dict(config)
Construct ==
    /\ op = "init"
    /\ \E c \in Configs :
        /\ cfg' = c
        /\ obj' = from_dict(c).obj
        /\ err' = from_dict(c).err
    /\ op' = "from_dict"
    /\ UNCHANGED <<nops, upd, mrg, pre, delta>>

\* an object was constructed and is kept for further calls
Constructed == obj # NoObj /\ cfg \in SessionConfigs

\* config.input_features.<name>.enable() / config.output_features.<name>.enable()
Enable ==
    /\ Constructed /\ nops < MaxOps
    /\ \/ \E i \in 1..Len(obj.input_features) :
            obj' = [obj EXCEPT !.input_features[i] = enable(@)]
       \/ \E i \in 1..Len(obj.output_features) :
            obj' = [obj EXCEPT !.output_features[i] = enable(@)]
    /\ err' = "none"
    /\ op' = "enable"
    /\ nops' = nops + 1
    /\ pre' = obj
    /\ UNCHANGED <<cfg, upd, mrg, delta>>

Disable ==
    /\ Constructed /\ nops < MaxOps
    /\ \/ \E i \in 1..Len(obj.input_features) :
            obj' = [obj EXCEPT !.input_features[i] = disable(@)]
       \/ \E i \in 1..Len(obj.output_features) :
            obj' = [obj EXCEPT !.output_features[i] = disable(@)]
    /\ err' = "none"
    /\ op' = "disable"
    /\ nops' = nops + 1
    /\ pre' = obj
    /\ UNCHANGED <<cfg, upd, mrg, delta>>

\* config.update_with_dict(delta)
Update ==
    /\ Constructed /\ nops < MaxOps
    /\ \E d \in Deltas(obj) :
        /\ delta' = d
        /\ obj' = update_with_dict(obj, d).obj
        /\ err' = update_with_dict(obj, d).err
    /\ pre' = obj
    /\ op' = "update_with_dict"
    /\ nops' = nops + 1
    /\ upd' = TRUE
    /\ UNCHANGED <<cfg, mrg>>

\* _merge_hyperopt_with_trainer(config) on a user config dict
MergeHyperopt ==
    /\ op = "init"
    /\ \E c \in HyperoptConfigs :
        /\ cfg' = c
        /\ mrg' = _merge_hyperopt_with_trainer(c)
    /\ op' = "merge"
    /\ UNCHANGED <<obj, err, nops, upd, pre, delta>>

\* _perform_sanity_checks(config) on a user config dict
SanityChecks ==
    /\ op = "init"
    /\ \E c \in FewFeaturesConfigs :
        /\ cfg' = c
        /\ mrg' = [err |-> IF _perform_sanity_checks(c) THEN "AssertionError" ELSE "none",
                   config |-> c]
    /\ op' = "sanity"
    /\ UNCHANGED <<obj, err, nops, upd, pre, delta>>

\* check_basic_required_parameters(config) on a user config dict
CheckBasicRequiredParameters ==
    /\ op = "init"
    /\ \E c \in TrainerConfigs :
        /\ cfg' = c
        /\ mrg' = [err |-> IF check_basic_required_parameters(c)
                           THEN "ConfigValidationError" ELSE "none",
                   config |-> c]
    /\ op' = "check_basic_required_parameters"
    /\ UNCHANGED <<obj, err, nops, upd, pre, delta>>

\* CheckRayBackendInMemoryPreprocessing.check(config) on a config dict
CheckRayBackend ==
    /\ op = "init"
    /\ \E c \in BackendConfigs :
        /\ cfg' = c
        /\ mrg' = [err |-> CheckRayBackendInMemoryPreprocessing(c), config |-> c]
    /\ op' = "CheckRayBackendInMemoryPreprocessing"
    /\ UNCHANGED <<obj, err, nops, upd, pre, delta>>

\* CheckClassBalancePreprocessing.check(config) and
\* CheckSamplingExclusivity.check(config), in registration order, on a config dict
CheckClassBalance ==
    /\ op = "init"
    /\ \E c \in BalanceConfigs :
        /\ cfg' = c
        /\ mrg' = [err |-> IF \/ CheckClassBalancePreprocessing(c)
                              \/ CheckSamplingExclusivity(c)
                           THEN "ConfigValidationError" ELSE "none",
                   config |-> c]
    /\ op' = "CheckClassBalancePreprocessing"
    /\ UNCHANGED <<obj, err, nops, upd, pre, delta>>

\* balance_data on the training set of a config, called by the preprocessing
\* functions when one of the two sampling ratios is set
BalanceData ==
    /\ op = "init"
    /\ \E c \in BalanceConfigs :
        /\ \/ Truthy(c["preprocessing"]["oversample_minority"])
           \/ Truthy(c["preprocessing"]["undersample_majority"])
        /\ cfg' = c
        /\ mrg' = [err |-> balance_data(c["output_features"], c["preprocessing"]),
                   config |-> c]
    /\ op' = "balance_data"
    /\ UNCHANGED <<obj, err, nops, upd, pre, delta>>

\* merge_with_defaults(config) on a user config dict
MergeWithDefaults ==
    /\ op = "init"
    /\ \E c \in MergeConfigs :
        /\ cfg' = c
        /\ mrg' = merge_with_defaults(c)
    /\ op' = "merge_with_defaults"
    /\ UNCHANGED <<obj, err, nops, upd, pre, delta>>

Next ==
    \/ Construct \/ Enable \/ Disable \/ Update
    \/ MergeHyperopt \/ SanityChecks \/ CheckBasicRequiredParameters
    \/ CheckRayBackend \/ CheckClassBalance \/ BalanceData \/ MergeWithDefaults

Spec == Init /\ [][Next]_vars

----------------------------------------------------------------------------
(* Round trip *)

\* from_dict(m.to_dict()) succeeds and its to_dict() equals m.to_dict()
RoundTrips(m) ==
    LET again == from_dict(to_dict(m))
    IN  again.err = "none" /\ to_dict(again.obj) = to_dict(m)

\* C1: every object from_dict constructed, with or without features disabled
\* afterwards, round-trips through to_dict and from_dict.
C1_RoundTrip == (obj # NoObj /\ ~upd) => RoundTrips(obj)

\* all inputs disabled after construction: to_dict() has no input feature
C1_Disabled ==
    /\ op = "disable" /\ ~upd
    /\ to_dict(obj).input_features = <<>>
    /\ from_dict(to_dict(obj)).err = "ValidationError"

----------------------------------------------------------------------------
(* What a construction and an update were given, and what they resolved *)

\* from_dict returned an object
Resolved == op = "from_dict" /\ err = "none"

\* update_with_dict returned
Updated == op = "update_with_dict" /\ err = "none"

Section(d, key) == Get(d, key, EmptyDict)

\* the user's global defaults for a section of a feature type
UserDefaults(config, ft, section) == Section(Section(Section(config, "defaults"), ft), section)

\* the dict a feature of a container was resolved from: the last one of its name
UserFeature(features, name) ==
    features[CHOOSE i \in 1..Len(features) :
                /\ features[i]["name"] = name
                /\ \A j \in (i + 1)..Len(features) : features[j]["name"] # name]

Feature(container, name) == container[IndexOf(container, name)]

IsGBM == obj # NoObj /\ obj.model_type = "gbm"

\* a dict laid over an object: the dict's keys with the dict's values, every
\* other attribute as the object has it
Overlay(object, d) ==
    [key \in DOMAIN object \cup DOMAIN d |-> IF key \in DOMAIN d THEN d[key] ELSE object[key]]

TypeChanged(old, d) == "type" \in DOMAIN d /\ old["type"] # d["type"]

\* the typed sections _set_attributes received in the last construction:
\* the object in the slot before, the dict received, the object in the slot after
ConstructSites ==
    {[section |-> "encoder", ft |-> f["type"],
      old |-> obj.defaults[f["type"]]["encoder"],
      d |-> UserFeature(cfg["input_features"], f["name"])["encoder"],
      new |-> f["encoder"]] :
        f \in {obj.input_features[i] : i \in
                {j \in 1..Len(obj.input_features) :
                    /\ ~IsGBM
                    /\ "encoder" \in DOMAIN UserFeature(cfg["input_features"],
                                                        obj.input_features[j]["name"])}}}
    \cup
    {[section |-> "decoder", ft |-> f["type"],
      old |-> obj.defaults[f["type"]]["decoder"],
      d |-> UserFeature(cfg["output_features"], f["name"])["decoder"],
      new |-> f["decoder"]] :
        f \in {obj.output_features[i] : i \in
                {j \in 1..Len(obj.output_features) :
                    "decoder" \in DOMAIN UserFeature(cfg["output_features"],
                                                     obj.output_features[j]["name"])}}}
    \cup
    {[section |-> sec, ft |-> ft,
      old |-> DefaultsConfig[ft][sec],
      d |-> UserDefaults(cfg, ft, sec),
      new |-> obj.defaults[ft][sec]] :
        sec \in {"encoder", "decoder", "loss"},
        ft \in {t \in INPUT_TYPES : "defaults" \in DOMAIN cfg /\ t \in DOMAIN cfg["defaults"]}}
    \cup
    {[section |-> "optimizer", ft |-> None,
      old |-> ECDTrainerConfig["optimizer"],
      d |-> cfg["trainer"]["optimizer"],
      new |-> obj.trainer["optimizer"]] :
        x \in {y \in {1} : /\ ~IsGBM /\ "trainer" \in DOMAIN cfg
                           /\ "optimizer" \in DOMAIN cfg["trainer"]}}
    \cup
    {[section |-> "split", ft |-> None,
      old |-> PreprocessingConfig["split"],
      d |-> cfg["preprocessing"]["split"],
      new |-> obj.preprocessing["split"]] :
        x \in {y \in {1} : /\ "preprocessing" \in DOMAIN cfg
                           /\ "split" \in DOMAIN cfg["preprocessing"]}}

\* the typed sections _set_attributes received in the last update
UpdateSites ==
    {[section |-> "encoder", ft |-> f["type"],
      old |-> Feature(pre.input_features, f["name"])["encoder"],
      d |-> f["encoder"],
      new |-> Feature(obj.input_features, f["name"])["encoder"]] :
        f \in {delta["input_features"][i] : i \in
                {j \in 1..Len(delta["input_features"]) :
                    "encoder" \in DOMAIN delta["input_features"][j]}}}
    \cup
    {[section |-> "decoder", ft |-> f["type"],
      old |-> Feature(pre.output_features, f["name"])["decoder"],
      d |-> f["decoder"],
      new |-> Feature(obj.output_features, f["name"])["decoder"]] :
        f \in {delta["output_features"][i] : i \in
                {j \in 1..Len(delta["output_features"]) :
                    "decoder" \in DOMAIN delta["output_features"][j]}}}
    \cup
    {[section |-> "optimizer", ft |-> None,
      old |-> pre.trainer["optimizer"],
      d |-> delta["trainer"]["optimizer"],
      new |-> obj.trainer["optimizer"]] :
        x \in {y \in {1} : /\ "trainer" \in DOMAIN delta
                           /\ "optimizer" \in DOMAIN delta["trainer"]}}

Sites ==
    IF Resolved THEN ConstructSites
    ELSE IF Updated THEN UpdateSites
    ELSE {}

\* the fields of the schema of the site's old type that the schema of its new type lacks
OldOnlyFields(site) ==
    DOMAIN _get_config_cls(site.section, site.old["type"], site.ft)
    \ DOMAIN _get_config_cls(site.section, site.d["type"], site.ft)

\* the slot holds a fresh instance of the new type with the section's keys applied
ReplacedThenApplied(site) ==
    site.new = Overlay(_get_config_cls(site.section, site.d["type"], site.ft), site.d)

----------------------------------------------------------------------------
(* Replace on type change *)

\* C2 as stated: a section whose type differs from the type in the slot leaves a
\* fresh instance of the new type with the section's keys applied, holding no
\* field that only the old type's schema has.
C2_NoOldField ==
    \A site \in Sites :
        TypeChanged(site.old, site.d) =>
            /\ ReplacedThenApplied(site)
            /\ DOMAIN site.new \cap OldOnlyFields(site) = {}

\* C2: a section whose type differs from the type in the slot leaves a fresh
\* default-initialized instance of the new type with the section's keys applied;
\* it holds a field that only the old type's schema has only where the section
\* dict itself names that field.
C2_ReplaceOnTypeChange ==
    \A site \in Sites :
        TypeChanged(site.old, site.d) =>
            /\ ReplacedThenApplied(site)
            /\ DOMAIN site.new \cap OldOnlyFields(site) \subseteq DOMAIN site.d

\* a text encoder went from parallel_cnn to rnn in an update and lost num_filters
C2_Witness ==
    /\ Updated
    /\ \E site \in Sites :
        /\ site.section = "encoder"
        /\ site.old["type"] = "parallel_cnn" /\ "num_filters" \in DOMAIN site.old
        /\ site.d["type"] = "rnn"
        /\ "num_filters" \notin DOMAIN site.new

----------------------------------------------------------------------------
(* Global defaults *)

\* the sections of a feature the global defaults of its type are copied to
DefaultedSections(feature_section) ==
    IF feature_section = "input_features" THEN {"encoder", "preprocessing"}
    ELSE {"decoder", "loss"}

\* field `key` of `section` of the resolved feature has value v
Holds(feature, section, key, v) ==
    key \in DOMAIN feature[section] /\ feature[section][key] = v

\* the feature resolved from dict f has the layering of the claim on `section`
Layered(f, feature, section) ==
    /\ \A key \in DOMAIN Section(f, section) :
        Holds(feature, section, key, f[section][key])
    /\ \A key \in DOMAIN UserDefaults(cfg, f["type"], section) \ DOMAIN Section(f, section) :
        Holds(feature, section, key, UserDefaults(cfg, f["type"], section)[key])

\* the same, for the global defaults, on the fields the resolved section holds
LayeredWhereHeld(f, feature, section) ==
    /\ \A key \in DOMAIN Section(f, section) :
        Holds(feature, section, key, f[section][key])
    /\ \A key \in (DOMAIN UserDefaults(cfg, f["type"], section) \ DOMAIN Section(f, section))
                  \cap DOMAIN feature[section] :
        feature[section][key] = UserDefaults(cfg, f["type"], section)[key]

\* C3 as stated: every feature dict's own values, then the global defaults of
\* its type, decide every field of the feature's defaulted sections.
C3_Layering ==
    Resolved =>
        \A fs \in {"input_features", "output_features"} :
            \A i \in 1..Len(cfg[fs]) :
                \A section \in DefaultedSections(fs) :
                    LayeredWhereHeld(cfg[fs][i], Feature(obj[fs], cfg[fs][i]["name"]),
                                     section)

\* the claim's layering is not what the code resolves for this section:
\* the encoder of a gbm config is forced, and a section whose dict declares
\* another type than the global default's starts from a fresh instance
Forced(f, section) == section = "encoder" /\ IsGBM

Retyped(f, section) == TypeChanged(obj.defaults[f["type"]][section], Section(f, section))

\* C3: for every resolved feature, with the last dict listed under its name as
\* its feature dict, a field the dict gives has the dict's value, and a field
\* the dict does not give but the global defaults of the type give has the
\* global default, in every defaulted section except the encoder under gbm,
\* the global default being dropped when the dict declares the section with
\* another type than the global default's.
C3_LayeringByType ==
    Resolved =>
        \A fs \in {"input_features", "output_features"} :
            \A i \in 1..Len(obj[fs]) :
                \A section \in DefaultedSections(fs) :
                    LET feature == obj[fs][i]
                        f == UserFeature(cfg[fs], feature["name"])
                    IN  \/ Forced(f, section)
                        \/ IF Retyped(f, section)
                           THEN \A key \in DOMAIN f[section] :
                                    Holds(feature, section, key, f[section][key])
                           ELSE Layered(f, feature, section)

\* a text input without an encoder of its own took num_filters from the global
\* defaults, and one with its own num_filters kept it against another default
C3_Witness ==
    /\ Resolved
    /\ "num_filters" \in DOMAIN UserDefaults(cfg, "text", "encoder")
    /\ \/ /\ "encoder" \notin DOMAIN cfg["input_features"][1]
          /\ obj.input_features[1]["encoder"]["num_filters"] = "64"
       \/ /\ "encoder" \in DOMAIN cfg["input_features"][1]
          /\ "num_filters" \in DOMAIN cfg["input_features"][1]["encoder"]

\* the config with the given sections taken out of its global defaults
WithoutDefaults(config, sections) ==
    IF "defaults" \notin DOMAIN config THEN config
    ELSE [config EXCEPT !["defaults"] =
            [ft \in DOMAIN config["defaults"] |->
                [sec \in DOMAIN config["defaults"][ft] \ sections |->
                    config["defaults"][ft][sec]]]]

\* C4: global defaults reach an input feature through `preprocessing` and
\* `encoder` only and an output feature through `decoder` and `loss` only: the
\* output features resolve as they do without the preprocessing and encoder
\* defaults (preprocessing stays the output schema's own, drop_row, under the
\* feature's own keys), the input features as they do without the decoder and
\* loss defaults, and no input feature holds a decoder or loss nor an output
\* feature an encoder.
C4_Directional ==
    Resolved =>
        /\ from_dict(WithoutDefaults(cfg, {"preprocessing", "encoder"})).obj.output_features
            = obj.output_features
        /\ from_dict(WithoutDefaults(cfg, {"decoder", "loss"})).obj.input_features
            = obj.input_features
        /\ \A i \in 1..Len(obj.output_features) :
            LET feature == obj.output_features[i]
                f == UserFeature(cfg["output_features"], feature["name"])
            IN  /\ feature["preprocessing"] =
                    Overlay(OutputPreprocessingConfig(feature["type"]),
                            Section(f, "preprocessing"))
                /\ "encoder" \notin DOMAIN feature
        /\ \A i \in 1..Len(obj.input_features) :
            {"decoder", "loss"} \cap DOMAIN obj.input_features[i] = {}

\* the category defaults say fill_with_mode: the category input has it, the
\* category output keeps drop_row
C4_Witness ==
    /\ Resolved
    /\ Get(UserDefaults(cfg, "category", "preprocessing"), "missing_value_strategy", None)
        = "fill_with_mode"
    /\ obj.input_features[1]["type"] = "category"
    /\ obj.input_features[1]["preprocessing"]["missing_value_strategy"] = "fill_with_mode"
    /\ obj.output_features[1]["type"] = "category"
    /\ obj.output_features[1]["preprocessing"]["missing_value_strategy"] = "drop_row"

----------------------------------------------------------------------------
(* Feature names *)

AllFeatures(config) == config["input_features"] \o config["output_features"]

\* two of the features share a name
SharedName(features) ==
    \E i, j \in 1..Len(features) : i # j /\ features[i]["name"] = features[j]["name"]

\* C5 as stated: a config in which two features share a name, within a list or
\* across the two, does not construct; a resolved config has pairwise distinct
\* names over both lists and as many features as the user listed.
C5_UniqueNames ==
    op = "from_dict" =>
        /\ SharedName(AllFeatures(cfg)) => err # "none"
        /\ err = "none" =>
            /\ ~SharedName(obj.input_features \o obj.output_features)
            /\ Len(obj.input_features) = Len(cfg["input_features"])
            /\ Len(obj.output_features) = Len(cfg["output_features"])

----------------------------------------------------------------------------
(* Model type *)

UserModelType == Get(cfg, "model_type", "ecd")

UserTrainer == Section(cfg, "trainer")

\* C6 as stated: a gbm config with more than one output feature, with an input
\* feature that is not binary, category or number, or with a declared
\* trainer.type other than lightgbm_trainer does not construct; an ecd config
\* with several output features does.
C6_GBMRestrictions ==
    op = "from_dict" =>
        /\ (/\ UserModelType = "gbm"
            /\ \/ Len(cfg["output_features"]) > 1
               \/ \E i \in 1..Len(cfg["input_features"]) :
                    cfg["input_features"][i]["type"] \notin {"binary", "category", "number"}
               \/ Get(UserTrainer, "type", "lightgbm_trainer") # "lightgbm_trainer")
            => err # "none"
        /\ (/\ UserModelType = "ecd" /\ Len(cfg["output_features"]) > 1
            /\ Get(UserTrainer, "type", "trainer") = "trainer")
            => err = "none"

\* what a successful gbm construction leaves: the GBM trainer and passthrough encoders
GBMForced ==
    /\ obj.trainer["type"] = "lightgbm_trainer"
    /\ DOMAIN GBMTrainerConfig \subseteq DOMAIN obj.trainer
    /\ \A i \in 1..Len(obj.input_features) :
        obj.input_features[i]["encoder"] =
            IF obj.input_features[i]["type"] = "binary"
            THEN BinaryPassthroughEncoderConfig ELSE PassthroughEncoderConfig

\* C7 as stated: a resolved gbm config has the GBM trainer and passthrough
\* encoders whatever encoder the user gave; a resolved ecd config has
\* trainer.type "trainer".
C7_TrainerType ==
    Resolved =>
        IF UserModelType = "gbm" THEN GBMForced
        ELSE obj.trainer["type"] = "trainer"

\* C7: a resolved gbm config has the GBM trainer with type lightgbm_trainer and
\* every input encoder is the passthrough encoder of its type, whatever encoder
\* the feature dict or the global defaults gave; a resolved ecd config has
\* trainer.type "trainer" unless the user's trainer section declares a type,
\* which is then the resolved one.
C7_TrainerTypeUnlessDeclared ==
    Resolved =>
        IF UserModelType = "gbm" THEN GBMForced
        ELSE obj.trainer["type"] = Get(UserTrainer, "type", "trainer")

\* a gbm config whose category input declared a dense encoder resolved with passthrough
C7_Witness ==
    /\ Resolved /\ UserModelType = "gbm"
    /\ Section(cfg["input_features"][1], "encoder") = [type |-> "dense"]
    /\ cfg["input_features"][1]["type"] = "category"
    /\ obj.input_features[1]["encoder"] = PassthroughEncoderConfig
    /\ obj.trainer["type"] = "lightgbm_trainer"

----------------------------------------------------------------------------
(* Hyperopt scheduler and trainer *)

UserScheduler(config) == Section(Section(Section(config, "hyperopt"), "executor"), "scheduler")

\* hyperopt.executor has a `scheduler` key
SchedulerPresent(config) ==
    "scheduler" \in DOMAIN Section(Section(config, "hyperopt"), "executor")

\* the trainer and early_stop a construction starts from
DefaultEarlyStop == IF UserModelType = "gbm" THEN GBMTrainerConfig["early_stop"]
                    ELSE ECDTrainerConfig["early_stop"]

\* C8 as stated: with a scheduler key present the resolved early_stop is -1
\* whatever the user gave; without one it is the user's value or the default.
C8_EarlyStop ==
    Resolved =>
        IF SchedulerPresent(cfg) THEN obj.trainer["early_stop"] = "-1"
        ELSE obj.trainer["early_stop"] = Get(UserTrainer, "early_stop", DefaultEarlyStop)

\* C8: with a non-empty hyperopt.executor.scheduler the resolved config has
\* trainer.early_stop -1 whatever early_stop the user gave; with no scheduler,
\* or an empty one, early_stop is the user's value or the trainer default.
\* _merge_hyperopt_with_trainer leaves the same in the dicts it returns.
C8_EarlyStopNonEmptyScheduler ==
    /\ Resolved =>
        IF ~Falsy(UserScheduler(cfg)) THEN obj.trainer["early_stop"] = "-1"
        ELSE obj.trainer["early_stop"] = Get(UserTrainer, "early_stop", DefaultEarlyStop)
    /\ (op = "merge" /\ mrg.err = "none") =>
        IF ~Falsy(UserScheduler(cfg)) THEN mrg.config["trainer"]["early_stop"] = "-1"
        ELSE mrg.config = cfg

\* a config with a scheduler and the user's early_stop 7 resolved with -1
C8_Witness ==
    /\ Resolved
    /\ ~Falsy(UserScheduler(cfg))
    /\ Get(UserTrainer, "early_stop", None) = "7"
    /\ obj.trainer["early_stop"] = "-1"

TimeBudget(config) ==
    /\ "max_t" \in DOMAIN UserScheduler(config)
    /\ Get(UserScheduler(config), "time_attr", None) = "time_total_s"

\* C9 as stated: max_t with time_attr time_total_s and no epochs in the user's
\* trainer section constructs with early_stop -1 and epochs sys.maxsize.
C9_EpochsSentinel ==
    (op = "from_dict" /\ TimeBudget(cfg) /\ "epochs" \notin DOMAIN UserTrainer) =>
        /\ err = "none"
        /\ obj.trainer["early_stop"] = "-1"
        /\ obj.trainer["epochs"] = MAXSIZE

EpochsAtOdds(config) ==
    /\ "max_t" \in DOMAIN UserScheduler(config)
    /\ "epochs" \in DOMAIN Section(config, "trainer")
    /\ config["trainer"]["epochs"] # UserScheduler(config)["max_t"]

\* C10 as stated: max_t and a user-set epochs different from it do not construct.
C10_EpochsMismatch ==
    (op = "from_dict" /\ EpochsAtOdds(cfg)) => err # "none"

\* C10: a scheduler max_t whose time_attr is not time_total_s and a user-set
\* trainer epochs different from max_t raise ValueError, in from_dict and in
\* _merge_hyperopt_with_trainer.
C10_EpochsMismatchByIteration ==
    (EpochsAtOdds(cfg) /\ ~TimeBudget(cfg)) =>
        /\ op = "from_dict" => err = "ValueError" /\ obj = NoObj
        /\ op = "merge" => mrg.err = "ValueError"

\* max_t 10 counted in training iterations against epochs 20 raised
C10_Witness ==
    /\ op = "from_dict" /\ err = "ValueError"
    /\ Get(UserScheduler(cfg), "max_t", None) = "10"
    /\ Get(UserScheduler(cfg), "time_attr", None) = "training_iteration"
    /\ Get(UserTrainer, "epochs", None) = "20"

----------------------------------------------------------------------------
(* Tied features *)

\* some input feature names in `tied` a feature that no other input feature is
TiedToNoOther(features) ==
    \E i \in 1..Len(features) :
        /\ Get(features[i], "tied", None) \notin {None, ""}
        /\ ~ \E j \in 1..Len(features) : j # i /\ features[j]["name"] = features[i]["tied"]

\* construction got as far as the final validation
ValidationReached == op = "from_dict" /\ err \in {"none", "ValidationError", "ConfigValidationError"}

\* C11 as stated: validation raises exactly when some input feature has a
\* non-empty `tied` that is not the name of another input feature of the config.
C11_TiedReference ==
    (ValidationReached /\ cfg \in SectionConfigs) =>
        (err = "ConfigValidationError" <=> TiedToNoOther(cfg["input_features"]))

----------------------------------------------------------------------------
(* proc_column *)

\* the layering configs that give no encoder: one input feature `a`, its
\* preprocessing given by the feature, by the global defaults, by both or neither
ProcColumnPeers ==
    {c \in InputLayeringConfigs :
        /\ "encoder" \notin DOMAIN c["input_features"][1]
        /\ \A ft \in DOMAIN Section(c, "defaults") : "encoder" \notin DOMAIN c["defaults"][ft]}

\* same type and same resolved preprocessing, against same proc_column
SameProcColumnWhenSame(f, g) ==
    (f["type"] = g["type"] /\ f["preprocessing"] = g["preprocessing"])
        <=> f["proc_column"] = g["proc_column"]

\* C12 as stated: two features of resolved configs, of one config or of two,
\* have the same proc_column exactly when they have the same type and the same
\* resolved preprocessing.
C12_ProcColumnDeterminism ==
    Resolved =>
        /\ \A i, j \in 1..Len(obj.input_features) :
            SameProcColumnWhenSame(obj.input_features[i], obj.input_features[j])
        /\ cfg \in ProcColumnPeers =>
            \A c \in ProcColumnPeers :
                SameProcColumnWhenSame(obj.input_features[1], from_dict(c).obj.input_features[1])

----------------------------------------------------------------------------
(* Enabling and disabling features *)

FeatureSections == {"input_features", "output_features"}

Names(features) == [i \in 1..Len(features) |-> features[i]["name"]]

\* C13: after construction and any enable()/disable() calls, to_dict() lists in
\* input_features and output_features the features whose active flag is True,
\* as the object holds them and in the order the config listed them, and no
\* feature whose active flag is False.
C13_ActiveOnly ==
    Constructed =>
        \A fs \in FeatureSections :
            LET listed == to_dict(obj)[fs]
            IN  /\ Names(listed) =
                    Names(SelectSeq(cfg[fs], LAMBDA f : Feature(obj[fs], f["name"])["active"]))
                /\ \A k \in 1..Len(listed) :
                    /\ listed[k] = Feature(obj[fs], listed[k]["name"])
                    /\ listed[k]["active"]

\* the first of two inputs was disabled: to_dict() lists the second only
C13_Witness ==
    /\ Constructed /\ op = "disable"
    /\ Len(obj.input_features) = 2
    /\ ~ obj.input_features[1]["active"]
    /\ Names(to_dict(obj).input_features) = <<obj.input_features[2]["name"]>>

\* C14: enable() and disable() change the `active` flag of the feature they are
\* called on and nothing else of the object; on a feature already in that state
\* they change nothing; the opposite call on the feature gives the object, and
\* so to_dict(), as it was before; disable() then enable() of a feature right
\* after construction leaves to_dict() as construction left it.
C14_OnlyActiveFlag ==
    /\ op \in {"enable", "disable"} =>
        \E fs \in FeatureSections :
            \E i \in 1..Len(pre[fs]) :
                /\ obj = [pre EXCEPT ![fs][i]["active"] = (op = "enable")]
                /\ pre[fs][i]["active"] = (op = "enable") => obj = pre
                /\ LET back == [obj EXCEPT ![fs][i] =
                                    IF op = "disable" THEN enable(@) ELSE disable(@)]
                   IN  obj # pre => back = pre /\ to_dict(back) = to_dict(pre)
    /\ (op = "enable" /\ nops = 2 /\ ~upd /\ obj # pre) =>
        to_dict(obj) = to_dict(from_dict(cfg).obj)

\* a feature was disabled and then enabled again: to_dict() is what it was
C14_Witness ==
    /\ op = "enable" /\ nops = 2 /\ ~upd
    /\ obj # pre
    /\ to_dict(pre) # to_dict(obj)
    /\ to_dict(obj) = to_dict(from_dict(cfg).obj)

----------------------------------------------------------------------------
(* What update_with_dict changes *)

\* the attributes of an object that hold a nested section
IsSection(key) == key \in TYPED_SECTIONS \cup DICT_KEYS

\* the dict the delta gives for the feature `name`, {} when it gives none
DeltaFor(features, name) ==
    IF name \in NameSet(features) THEN UserFeature(features, name) ELSE EmptyDict

\* every field of `old` that d does not mention is in `new` with its value, and
\* `new` has no field that neither `old` had nor d mentions
KeptField(old, d, new, key) ==
    IF IsSection(key)
    THEN /\ key \in DOMAIN new
         /\ DOMAIN new[key] \subseteq DOMAIN old[key] \cup DOMAIN Section(d, key)
         /\ \A f \in DOMAIN old[key] \ DOMAIN Section(d, key) :
                f \in DOMAIN new[key] /\ new[key][f] = old[key][f]
    ELSE key \notin DOMAIN d => (key \in DOMAIN new /\ new[key] = old[key])

\* field `key` of `new` has what d gives for it
SetField(d, new, key) ==
    IF IsSection(key)
    THEN \A f \in DOMAIN d[key] : f \in DOMAIN new[key] /\ new[key][f] = d[key][f]
    ELSE new[key] = d[key]

\* only the fields d mentions differ between `old` and `new`, and they are d's
OnlyMentioned(old, d, new) ==
    /\ DOMAIN new \subseteq DOMAIN old \cup DOMAIN d
    /\ \A key \in DOMAIN old : KeptField(old, d, new, key)
    /\ \A key \in DOMAIN d : SetField(d, new, key)

\* the objects update_with_dict works on: each feature, the combiner and the
\* trainer before the call, what the delta gives for it, and the object after
UpdateTargets ==
    UNION {{[old |-> pre[fs][i],
             d |-> DeltaFor(delta[fs], pre[fs][i]["name"]),
             new |-> Feature(obj[fs], pre[fs][i]["name"]),
             ft |-> pre[fs][i]["type"]] : i \in 1..Len(pre[fs])} : fs \in FeatureSections}
    \cup {[old |-> pre.combiner, d |-> Section(delta, "combiner"), new |-> obj.combiner,
           ft |-> None],
          [old |-> pre.trainer, d |-> Section(delta, "trainer"), new |-> obj.trainer,
           ft |-> None]}

\* C15 as stated: after update_with_dict(delta) every field of every feature,
\* of the combiner and of the trainer that delta does not mention has the value
\* it had, and every field delta mentions has delta's value.
C15_OnlyDeltaKeys ==
    Updated => \A t \in UpdateTargets : OnlyMentioned(t.old, t.d, t.new)

\* delta gives the typed section `key` of the target with another type than it has
RetypedByDelta(t, key) ==
    key \in TYPED_SECTIONS /\ key \in DOMAIN t.d /\ TypeChanged(t.old[key], t.d[key])

\* the target is an output feature whose decoder is the tagger after the update
TaggerAfter(t) == "decoder" \in DOMAIN t.new /\ t.new["decoder"]["type"] = "tagger"

\* C15: after an update_with_dict(delta) that returns, every field of every
\* feature, of the combiner and of the trainer that delta does not mention has
\* the value it had and every field delta mentions has delta's value, except
\* that a typed section delta gives with another type than the current one is
\* a fresh instance of the new type with delta's keys applied, and that
\* reduce_input is None on an output feature whose decoder is then the tagger;
\* model_type, preprocessing, hyperopt and defaults are as they were, whatever
\* delta holds for them.
C15_OnlyDeltaKeysOrRetyped ==
    Updated =>
        /\ \A t \in UpdateTargets :
            /\ DOMAIN t.new \subseteq DOMAIN t.old \cup DOMAIN t.d
            /\ \A key \in DOMAIN t.old \cup DOMAIN t.d :
                IF RetypedByDelta(t, key)
                THEN t.new[key] =
                        Overlay(_get_config_cls(key, t.d[key]["type"], t.ft), t.d[key])
                ELSE IF key = "reduce_input" /\ TaggerAfter(t)
                THEN t.new[key] = None
                ELSE /\ key \in DOMAIN t.old => KeptField(t.old, t.d, t.new, key)
                     /\ key \in DOMAIN t.d => SetField(t.d, t.new, key)
        /\ \A key \in {"model_type", "preprocessing", "hyperopt", "defaults"} :
            obj[key] = pre[key]
        /\ Len(obj.input_features) = Len(pre.input_features)
        /\ Len(obj.output_features) = Len(pre.output_features)

\* a delta gave lowercase for the preprocessing of an input feature: lowercase
\* changed, missing_value_strategy and the encoder stayed
C15_Witness ==
    /\ Updated
    /\ Len(delta["input_features"]) = 1
    /\ Section(delta["input_features"][1], "preprocessing") = [lowercase |-> "True"]
    /\ LET name == delta["input_features"][1]["name"]
           old == Feature(pre.input_features, name)
           new == Feature(obj.input_features, name)
       IN  /\ old["preprocessing"]["lowercase"] = "False"
           /\ new["preprocessing"]["lowercase"] = "True"
           /\ new["preprocessing"]["missing_value_strategy"]
                = old["preprocessing"]["missing_value_strategy"]
           /\ new["encoder"] = old["encoder"]

----------------------------------------------------------------------------
(* Exceptions of a construction *)

\* C16 as stated: a construction that fails raises ConfigValidationError and no
\* other exception type, and returns no object.
C16_SingleErrorType ==
    op = "from_dict" =>
        /\ err \in {"none", "ConfigValidationError"}
        /\ err # "none" => obj = NoObj

----------------------------------------------------------------------------
(* At least one feature on each side *)

NoInputOrNoOutput(config) ==
    Len(config["input_features"]) = 0 \/ Len(config["output_features"]) = 0

\* C17: a config whose input_features list or output_features list is empty
\* does not construct and fails the sanity checks of the dict path; every
\* object a construction returns holds, and lists in to_dict(), at least one
\* input feature and at least one output feature.
C17_AtLeastOneFeature ==
    /\ (op = "from_dict" /\ NoInputOrNoOutput(cfg)) => (err # "none" /\ obj = NoObj)
    /\ (op = "sanity" /\ NoInputOrNoOutput(cfg)) => mrg.err = "AssertionError"
    /\ (op = "sanity" /\ ~NoInputOrNoOutput(cfg)) => mrg.err = "none"
    /\ Resolved =>
        /\ Len(obj.input_features) >= 1 /\ Len(obj.output_features) >= 1
        /\ Len(to_dict(obj).input_features) >= 1 /\ Len(to_dict(obj).output_features) >= 1

\* a config with an output feature and an empty input list did not construct
C17_Witness ==
    /\ op = "from_dict"
    /\ cfg["input_features"] = <<>> /\ Len(cfg["output_features"]) = 1
    /\ err # "none" /\ obj = NoObj

----------------------------------------------------------------------------
(* Trainer and optimizer *)

BasicChecked == op = "check_basic_required_parameters"

\* the features and the combiner of the config pass the basic checks
FeaturesAndCombinerValid(config) ==
    /\ config["input_features"][1]["encoder"]["type"] = "dense"
    /\ "combiner" \in DOMAIN config =>
        Get(config, "model_type", "ecd") = "gbm"
        \/ Get(config["combiner"], "type", None) \in get_combiner_registry

TrainerNone(config) == "trainer" \in DOMAIN config /\ config["trainer"] = NoneSection

OptimizerGiven(config) ==
    "trainer" \in DOMAIN config /\ ~TrainerNone(config) /\ "optimizer" \in DOMAIN config["trainer"]

OptimizerNone(config) == OptimizerGiven(config) /\ config["trainer"]["optimizer"] = NoneSection

OptimizerTypeGiven(config) ==
    OptimizerGiven(config) /\ ~OptimizerNone(config)
    /\ "type" \in DOMAIN config["trainer"]["optimizer"]

OptimizerUnregistered(config) ==
    OptimizerTypeGiven(config)
    /\ config["trainer"]["optimizer"]["type"] \notin optimizer_registry

\* C18 as stated: whatever the other sections hold, the check raises
\* ConfigValidationError when trainer is None, when trainer.optimizer is None
\* and when trainer.optimizer.type is not registered; it accepts an empty
\* trainer dict and every registered optimizer type.
C18_TrainerRequired ==
    BasicChecked =>
        /\ (TrainerNone(cfg) \/ OptimizerNone(cfg) \/ OptimizerUnregistered(cfg)) =>
            mrg.err = "ConfigValidationError"
        /\ (/\ FeaturesAndCombinerValid(cfg)
            /\ "trainer" \in DOMAIN cfg
            /\ \/ cfg["trainer"] = EmptyDict
               \/ OptimizerTypeGiven(cfg) /\ ~OptimizerUnregistered(cfg)) =>
            mrg.err = "none"

----------------------------------------------------------------------------
(* Combiner requirements *)

\* the user's config is an ecd config with a combiner of the type
UserCombinerIs(type) ==
    /\ UserModelType = "ecd"
    /\ Get(Section(cfg, "combiner"), "type", "concat") = type

HasSequentialInput(config) ==
    \E i \in 1..Len(config["input_features"]) :
        config["input_features"][i]["type"] \in SEQUENCE_OUTPUT_FEATURE_TYPES

\* C19 as stated: an ecd config with the sequence_concat combiner raises when no
\* input feature has a sequential type and passes when one has.
C19_SequenceConcat ==
    (op = "from_dict" /\ cfg \in CombinerConfigs /\ UserCombinerIs("sequence_concat")) =>
        (err # "none" <=> ~HasSequentialInput(cfg))

\* the names the comparator's entities list
EntityNames(combiner) ==
    UNION {{combiner[entity][k] : k \in 1..Len(combiner[entity])} :
            entity \in {e \in {"entity_1", "entity_2"} : e \in DOMAIN combiner}}

\* C20 as stated: an ecd config with the comparator combiner raises when a name
\* listed in entity_1 or entity_2 is not the name of an input feature and
\* passes when all of them are.
C20_ComparatorEntities ==
    (op = "from_dict" /\ cfg \in CombinerConfigs /\ UserCombinerIs("comparator")) =>
        (err # "none" <=> ~ (EntityNames(cfg["combiner"]) \subseteq NameSet(cfg["input_features"])))

-----------------------------------------------------------------------------
(* C21: Ray in-memory requirement *)

RayChecked == op = "CheckRayBackendInMemoryPreprocessing"

\* the config has an audio or image input feature with preprocessing.in_memory false
HasLazyMedia(config) ==
    \E i \in 1..Len(config["input_features"]) :
        /\ config["input_features"][i]["type"] \in {"audio", "image"}
        /\ config["input_features"][i]["preprocessing"]["in_memory"] = "False"

IsRay(config) ==
    "backend" \in DOMAIN config /\ config["backend"]["type"] = "ray"

\* C21: with backend type ray the check raises when an audio or image input
\* feature has preprocessing.in_memory false; with a non-Ray backend, or with
\* no backend section, the same feature configuration does not raise
C21_RayInMemory ==
    RayChecked /\ HasLazyMedia(mrg.config) =>
        /\ IsRay(mrg.config) => mrg.err = "ConfigValidationError"
        /\ ~IsRay(mrg.config) => mrg.err = "none"

-----------------------------------------------------------------------------
(* C22: class balancing validity *)

BalanceChecked == op = "CheckClassBalancePreprocessing"

BalanceDataCalled == op = "balance_data"

Oversamples(config) == Truthy(config["preprocessing"]["oversample_minority"])

Undersamples(config) == Truthy(config["preprocessing"]["undersample_majority"])

SingleBinaryOutput(config) ==
    /\ Len(config["output_features"]) = 1
    /\ config["output_features"][1]["type"] = "binary"

\* the three conditions under which a balancing config is rejected
BalancingInvalid(config) ==
    \/ /\ Oversamples(config) \/ Undersamples(config)
       /\ ~SingleBinaryOutput(config)
    \/ Oversamples(config) /\ Undersamples(config)

\* C22: a config that sets oversample_minority or undersample_majority raises
\* unless it has exactly one output feature and that feature is binary, and
\* raises when both are set; a config that meets the conditions is accepted;
\* balance_data raises and returns on the same configs
C22_ClassBalancing ==
    /\ BalanceChecked =>
        (mrg.err = "ConfigValidationError" <=> BalancingInvalid(mrg.config))
    /\ BalanceDataCalled =>
        (mrg.err = "ValueError" <=> BalancingInvalid(mrg.config))
    /\ BalanceDataCalled => mrg.err \in {"ValueError", "none"}

\* both ratios set on a config with one binary output: rejected by the check
C22_Witness ==
    /\ BalanceChecked
    /\ Oversamples(mrg.config) /\ Undersamples(mrg.config)
    /\ SingleBinaryOutput(mrg.config)
    /\ mrg.err = "ConfigValidationError"

-----------------------------------------------------------------------------
(* C23: tagger coupling *)

\* C23: in every state reached by construction and by later update_with_dict
\* calls, an output feature whose resolved decoder type is tagger has
\* reduce_input None, whatever reduce_input the user supplied
C23_TaggerCoupling ==
    obj # NoObj =>
        \A i \in 1..Len(obj.output_features) :
            obj.output_features[i]["decoder"]["type"] = "tagger"
                => obj.output_features[i]["reduce_input"] = None

\* an update gave reduce_input to an output feature whose decoder is the tagger
C23_Witness ==
    /\ Updated
    /\ \E i \in 1..Len(delta["output_features"]) :
        LET d == delta["output_features"][i]
            f == obj.output_features[IndexOf(obj.output_features, d["name"])]
        IN  /\ "reduce_input" \in DOMAIN d /\ d["reduce_input"] = "mean"
            /\ f["decoder"]["type"] = "tagger"
            /\ f["reduce_input"] = None

-----------------------------------------------------------------------------
(* C24: no aliasing between nested specs *)

\* the defaults section as the user's defaults alone decide it
DefaultsOf(config) ==
    IF "defaults" \in DOMAIN config
    THEN _set_attributes(DefaultsConfig, config["defaults"], None)
    ELSE DefaultsConfig

\* the sections of a feature that the GBM forcing does not replace
UnforcedSections(fs) ==
    IF IsGBM /\ fs = "input_features" THEN DefaultedSections(fs) \ {"encoder"}
    ELSE DefaultedSections(fs)

UpdateCalled == op = "update_with_dict"

-----------------------------------------------------------------------------
(* C25: the combiner and its type *)

\* the combiner object is an instance of the schema its type names
CombinerOfItsType(self) ==
    /\ self.combiner["type"] \in COMBINER_TYPES
    /\ DOMAIN self.combiner = DOMAIN combiner_registry(self.combiner["type"])

\* C25 as stated: when the combiner type given at construction or in
\* update_with_dict differs from the type of the current combiner object, the
\* combiner is a fresh instance of the schema of the new type with the other
\* combiner keys applied; in every reachable state combiner.type names the
\* schema of the combiner object and no field of another combiner type remains
C25_CombinerTypeDiscriminated ==
    /\ obj # NoObj => CombinerOfItsType(obj)
    /\ Updated /\ "combiner" \in DOMAIN delta /\ TypeChanged(pre.combiner, delta["combiner"]) =>
        obj.combiner = Overlay(combiner_registry(delta["combiner"]["type"]), delta["combiner"])

-----------------------------------------------------------------------------
(* C26: explicit encoder and decoder types in merge_with_defaults *)

MergedWithDefaults == op = "merge_with_defaults" /\ mrg.err = "none"

\* the type a section slot names: the str it holds, or the `type` of its dict
TypeNamed(v) == IF "str" \in DOMAIN v THEN v["str"] ELSE Get(v, "type", None)

\* the feature dict gives the section with a type of its own
ExplicitType(feature, section) ==
    section \in DOMAIN feature /\ "type" \in DOMAIN feature[section]

\* C26 as stated: in the config merge_with_defaults returns, an input feature
\* that gives its encoder type names that type, and an output feature that
\* gives its decoder type names that type, whatever type the global defaults
\* of the feature type name (a gbm config aside, whose encoders and decoders
\* are forced)
C26_ExplicitTypeKept ==
    MergedWithDefaults /\ mrg.config["model_type"] # "gbm" =>
        /\ \A i \in 1..Len(cfg["input_features"]) :
            ExplicitType(cfg["input_features"][i], "encoder") =>
                TypeNamed(mrg.config["input_features"][i]["encoder"])
                    = cfg["input_features"][i]["encoder"]["type"]
        /\ \A i \in 1..Len(cfg["output_features"]) :
            ExplicitType(cfg["output_features"][i], "decoder") =>
                TypeNamed(mrg.config["output_features"][i]["decoder"])
                    = cfg["output_features"][i]["decoder"]["type"]

-----------------------------------------------------------------------------
(* C27: epochs and the scheduler's max_t *)

\* the scheduler sets max_t, counted in something else than seconds, and the
\* user's trainer section does not set epochs
IterationBudgetOnly(config) ==
    /\ "max_t" \in DOMAIN UserScheduler(config)
    /\ ~TimeBudget(config)
    /\ "epochs" \notin DOMAIN Section(config, "trainer")

\* the scheduler is there without max_t and the user's trainer sets epochs
EpochsOnly(config) ==
    /\ ~Falsy(UserScheduler(config))
    /\ "max_t" \notin DOMAIN UserScheduler(config)
    /\ "epochs" \in DOMAIN Section(config, "trainer")

\* C27 as stated: with max_t under a time_attr other than time_total_s and no
\* epochs in the user's trainer section, the reconciliation does not raise and
\* the resolved trainer.epochs is max_t; with no max_t and epochs set, the
\* scheduler's max_t becomes trainer.epochs
C27_EpochsFollowScheduler ==
    /\ op = "from_dict" /\ IterationBudgetOnly(cfg) =>
        /\ err = "none"
        /\ obj.trainer["epochs"] = UserScheduler(cfg)["max_t"]
    /\ op = "from_dict" /\ EpochsOnly(cfg) /\ err = "none" =>
        UserScheduler(obj)["max_t"] = cfg["trainer"]["epochs"]

-----------------------------------------------------------------------------
(* C28: what update_with_dict leaves alone *)

TopLevelSections == {"model_type", "preprocessing", "defaults", "hyperopt"}

\* C28: an update_with_dict call, returning or raising, leaves model_type, the
\* global preprocessing section, the defaults section and hyperopt as they
\* were, whatever keys the delta holds, and the input and output containers
\* hold the features they held, in the same order
C28_UpdateConfined ==
    UpdateCalled =>
        /\ \A k \in TopLevelSections : obj[k] = pre[k]
        /\ \A fs \in FeatureSections : Names(obj[fs]) = Names(pre[fs])

\* an update whose delta gives another model_type than the object has returned
C28_Witness ==
    /\ Updated
    /\ "model_type" \in DOMAIN delta
    /\ delta["model_type"] # pre.model_type
    /\ obj.model_type = pre.model_type

-----------------------------------------------------------------------------
(* C29: the feature minimum under enable() and disable() *)

\* C29 as stated: in every state reached from a constructed ModelConfig by
\* enable() and disable() calls, to_dict() lists at least one input feature and
\* at least one output feature
C29_MinimumKept ==
    Constructed /\ ~upd =>
        /\ Len(to_dict(obj)["input_features"]) >= 1
        /\ Len(to_dict(obj)["output_features"]) >= 1

-----------------------------------------------------------------------------
(* C30: the GBM forcing under update_with_dict *)

\* C30 as stated: for a ModelConfig constructed with model_type gbm, after any
\* sequence of update_with_dict calls every input feature's encoder is the
\* passthrough encoder and trainer.type is lightgbm_trainer
C30_GBMForcingKept ==
    Constructed /\ UserModelType = "gbm" =>
        /\ \A i \in 1..Len(obj.input_features) :
            obj.input_features[i]["encoder"] =
                IF obj.input_features[i]["type"] = "binary"
                THEN BinaryPassthroughEncoderConfig ELSE PassthroughEncoderConfig
        /\ obj.trainer["type"] = "lightgbm_trainer"

====
